---- MODULE Spec2Model ----
(***************************************************************************)
(* Verification model of the `truth` compiler core: the resolution map,    *)
(* rib-stack name resolution, the name-resolution visitor, the stackless   *)
(* lowerer and scratch-register assignment, the statement loop of the      *)
(* lowerer, intrinsic ABI matching, label resolution, the early STD label  *)
(* encoding, script reading and writing, the STD compile drivers, constant *)
(* simplification, the lowering of conditional jumps, the removal of       *)
(* unused labels, and the reading and writing of STD files.                *)
(***************************************************************************)
EXTENDS Integers, Sequences, FiniteSets, TLC

\* ------------------------------------------------------------------------
\* Bounds of the model
\* ------------------------------------------------------------------------
MaxRes == 3        \* resolution ids handed out by fresh_res
MaxCalls == 4      \* record_* calls explored on one Resolutions value

None == 0          \* Option::None for DefId / ResId valued slots

MaxRibs == 3       \* ribs pushed on one namespace's stack above the DummyRoot
MaxDefs == 2       \* DefIds created while exploring the rib stacks

MaxStmts == 3      \* statements visited by one name-resolution walk
MaxDepth == 2      \* blocks open at once during the walk

MaxSub == 3        \* statements of a sub handed to lower_sub_ast
MaxSig == 4        \* argument encodings of one instruction signature
MaxCode == 3       \* low-level statements of a sub handed to encode_labels
MaxOffset == 120   \* byte offsets handed to encode_label
MaxStream == 4     \* instructions and end markers in a stream handed to read_instrs
MaxStdItems == 3   \* items of a script file handed to compile_std

VARIABLES
    resMap,        \* Resolutions.map, indexed by ResId (1..Len); None or a DefId
    resCall,       \* the last record_* call: [res, def, isSelf, pre, outcome]
    resCalls,      \* number of record_* calls made so far
    ribs,          \* RibStacks.ribs: namespace -> sequence of ribs (top is last)
    nextDef,       \* next unused DefId
    lookup,        \* the last RibStacks::resolve call and what it returned
    frames,        \* the visitor's open blocks (its recursion stack), innermost last
    errors,        \* Visitor.errors (ErrorFlag) and the diagnostics emitted
    visited,       \* the last statement visited and the number visited so far
    phase,         \* position of the walk: "idle", "walking", "finished"
    stmt,          \* the source statement being lowered
    code,          \* Lowerer.out: the low-level statements of the sub
    variables,     \* ty_ctx.variables: the type of each LocalId (1..Len)
    format,        \* the InstrFormat: general-use registers and disabling opcodes
    sw,            \* the locals of assign_registers during its sweep
    lphase,        \* position of the lowering: "source", "lowered", "closed", "sweep", "done"
    sl,            \* lower_sub_ast: the sub, the Lowerer's out, th06_anm_end_span, errors
    abi,           \* IntrinsicInstrAbiProps::from_abi: intrinsic, signature, result
    lbl,           \* encode_labels: the low-level code, the label table, the result
    enc,           \* early STD encode_label / decode_label: offset, bits, decoded
    io,            \* read_instrs / write_instrs: the stream, the script, the output
    cs,            \* compile_std: the stage reached, the errors, the result
    cst,           \* const_simplify: the expression, the Visitor's errors, the result
    cj,            \* lower_cond_jump: the condition, the code emitted, the machine running it
    ul,            \* unused_labels: the function body before and after the pass
    sf             \* write_std / read_std: the StdFile, the bytes, the file read back

resVars == <<resMap, resCall, resCalls>>
ribVars == <<ribs, nextDef, lookup>>
walkVars == <<frames, errors, visited, phase>>
lowVars == <<stmt, code, variables, format, sw, lphase>>
auxVars == <<sl, abi, lbl, enc, io, cs>>
passVars == <<cst, cj, ul, sf>>
vars == <<resVars, ribVars, walkVars, lowVars, auxVars, passVars>>

\* what each component leaves alone
notRes == <<ribVars, walkVars, lowVars, auxVars, passVars>>
notRib == <<resVars, walkVars, lowVars, auxVars, passVars>>
notWalk == <<resCall, resCalls, lowVars, auxVars, passVars>>
notLow == <<resVars, ribVars, walkVars, auxVars, passVars>>
coreVars == <<resVars, ribVars, walkVars, lowVars>>
notSub == <<coreVars, abi, lbl, enc, io, cs, passVars>>
notAbi == <<coreVars, sl, lbl, enc, io, cs, passVars>>
notLbl == <<coreVars, sl, abi, enc, io, cs, passVars>>
notEnc == <<coreVars, sl, abi, lbl, io, cs, passVars>>
notIO == <<coreVars, sl, abi, lbl, enc, cs, passVars>>
notCs == <<coreVars, sl, abi, lbl, enc, io, passVars>>
notCst == <<coreVars, auxVars, cj, ul, sf>>
notCj == <<coreVars, auxVars, cst, ul, sf>>
notUl == <<coreVars, auxVars, cst, cj, sf>>
notSf == <<coreVars, auxVars, cst, cj, ul>>

\* a component that takes no part in the run
Idle == [result |-> "idle"]
AuxIdle ==
    /\ sl = Idle
    /\ abi = Idle
    /\ lbl = Idle
    /\ enc = Idle
    /\ io = Idle
    /\ cs = Idle
PassIdle ==
    /\ cst = Idle
    /\ cj = Idle
    /\ ul = Idle
    /\ sf = Idle

\* ------------------------------------------------------------------------
\* Resolutions  (src/src/resolve/mod.rs)
\* ------------------------------------------------------------------------
NoCall == [res |-> None, def |-> None, isSelf |-> FALSE, pre |-> None, outcome |-> "none"]

\* Resolutions::new -- the zeroth dummy element is not represented.
ResolutionsNew == <<>>

\* DefId(res.0)
synthesize_def_id_from_res_id(res) == res

\* the assertion of _record_resolution
RecordAssertBroken(dest, def, is_self_resolution) == TRUE
RecordAssertNoSelfCheck(dest, def, is_self_resolution) == dest = None \/ dest = def
RecordAssert(dest, def, is_self_resolution) ==
    dest = None \/ (dest = def /\ is_self_resolution)

\* Resolutions::_record_resolution as a step on the map
_record_resolution(res, def, is_self_resolution) ==
    LET dest == resMap[res] IN
    /\ resCalls < MaxCalls
    /\ resCalls' = resCalls + 1
    /\ IF RecordAssert(dest, def, is_self_resolution)
         THEN /\ resMap' = [resMap EXCEPT ![res] = def]
              /\ resCall' = [res |-> res, def |-> def, isSelf |-> is_self_resolution,
                             pre |-> dest, outcome |-> "ok"]
         ELSE /\ resMap' = resMap
              /\ resCall' = [res |-> res, def |-> def, isSelf |-> is_self_resolution,
                             pre |-> dest, outcome |-> "bug"]

ResRunning == resCall.outcome # "bug"

fresh_res ==
    /\ ResRunning
    /\ Len(resMap) < MaxRes
    /\ resMap' = Append(resMap, None)
    /\ UNCHANGED <<resCall, resCalls>>
    /\ UNCHANGED notRes

record_resolution ==
    /\ ResRunning
    /\ \E res \in DOMAIN resMap, def \in 1..MaxRes :
          _record_resolution(res, def, FALSE)
    /\ UNCHANGED notRes

record_self_resolution ==
    /\ ResRunning
    /\ \E res \in DOMAIN resMap :
          _record_resolution(res, synthesize_def_id_from_res_id(res), TRUE)
    /\ UNCHANGED notRes

ResFresh ==
    /\ resMap = ResolutionsNew
    /\ resCall = NoCall
    /\ resCalls = 0

NextRes ==
    \/ fresh_res
    \/ record_resolution
    \/ record_self_resolution

\* ------------------------------------------------------------------------
\* Ribs and rib stacks  (src/src/resolve/mod.rs, mod rib)
\* ------------------------------------------------------------------------
Namespace == {"Vars", "Funcs"}
Idents == {"x", "y"}
Languages == {"anm", "ecl"}
NoLanguage == "none"          \* Option<LanguageKey>::None
NoCause == "none"             \* Option<&str>::None for a local barrier's cause

\* Rib::new
RibNew(ns, kind, language, of_what) ==
    [ns |-> ns, kind |-> kind, language |-> language, of_what |-> of_what,
     defs |-> [id \in Idents |-> None]]

\* RibStacks::new -- a DummyRoot at the base of each namespace
RibStacksNew == [ns \in Namespace |-> <<RibNew(ns, "DummyRoot", NoLanguage, NoCause)>>]

\* RibKind::local_barrier_cause
local_barrier_cause(rib) == IF rib.kind = "LocalBarrier" THEN rib.of_what ELSE NoCause

\* RibKind::holds_locals
holds_locals(kind) == kind \in {"Locals", "Params"}

\* the test that turns a match in a Locals/Params rib into an error
LocalIsBlockedNever(rib, crossed_local_border) == FALSE
LocalIsBlocked(rib, crossed_local_border) ==
    holds_locals(rib.kind) /\ crossed_local_border # NoCause

\* the test that skips a Mapfile rib of another language
MapfileIsSkippedNever(rib, alias_language) == FALSE
MapfileIsSkipped(rib, alias_language) ==
    rib.kind = "Mapfile" /\ alias_language # rib.language

\* RibStacks::resolve, the loop over self.ribs[ns].iter().rev() from index i down
RECURSIVE ResolveFrom(_, _, _, _, _, _)
ResolveFrom(stack, i, crossed_in, language_with_ident, alias_language, cur_ident) ==
    IF i = 0
      THEN [ok |-> FALSE, def |-> None, err |-> "unknown", note |-> language_with_ident]
      ELSE
        LET rib == stack[i]
            cause == local_barrier_cause(rib)
            crossed == IF cause # NoCause /\ crossed_in = NoCause THEN cause ELSE crossed_in
        IN  IF rib.defs[cur_ident] # None
              THEN IF LocalIsBlocked(rib, crossed)
                     THEN [ok |-> FALSE, def |-> None, err |-> "cannot use local from outside",
                           note |-> crossed]
                     ELSE IF MapfileIsSkipped(rib, alias_language)
                            THEN ResolveFrom(stack, i - 1, crossed, rib.language,
                                             alias_language, cur_ident)
                            ELSE [ok |-> TRUE, def |-> rib.defs[cur_ident], err |-> "none",
                                  note |-> NoLanguage]
              ELSE ResolveFrom(stack, i - 1, crossed, language_with_ident,
                               alias_language, cur_ident)

\* RibStacks::resolve
Resolve(stack, alias_language, cur_ident) ==
    ResolveFrom(stack, Len(stack), NoCause, NoLanguage, alias_language, cur_ident)

NoLookup == [ns |-> "Vars", ident |-> "x", language |-> NoLanguage,
             stack |-> <<>>, result |-> [ok |-> FALSE, def |-> None, err |-> "none", note |-> NoLanguage]]

\* RibStacks::enter_new_rib; the ribs of mapfiles come from initial_ribs and
\* sit directly above the DummyRoot, below every rib the visitor enters.
enter_new_rib ==
    \E ns \in Namespace,
       kl \in ({"Locals", "Params", "Items"} \X {NoLanguage} \X {NoCause})
              \cup ({"LocalBarrier"} \X {NoLanguage} \X {"function", "const"})
              \cup ({"Mapfile"} \X Languages \X {NoCause}) :
        /\ Len(ribs[ns]) <= MaxRibs
        /\ \A other \in Namespace \ {ns} : Len(ribs[other]) = 1
        /\ kl[1] = "Mapfile" =>
              \A j \in DOMAIN ribs[ns] : ribs[ns][j].kind \in {"DummyRoot", "Mapfile"}
        /\ kl[1] \in {"Locals", "Params", "LocalBarrier"} => ns = "Vars"
        /\ ribs' = [ribs EXCEPT ![ns] = Append(@, RibNew(ns, kl[1], kl[2], kl[3]))]
        /\ lookup' = NoLookup
        /\ UNCHANGED nextDef
        /\ UNCHANGED notRib

\* RibStacks::leave_rib
leave_rib ==
    \E ns \in Namespace :
        /\ Len(ribs[ns]) > 1
        /\ ribs' = [ribs EXCEPT ![ns] = SubSeq(@, 1, Len(@) - 1)]
        /\ lookup' = NoLookup
        /\ UNCHANGED nextDef
        /\ UNCHANGED notRib

\* Rib::insert on the top rib with a newly created DefId
rib_insert ==
    \E ns \in Namespace, ident \in Idents :
        LET top == Len(ribs[ns]) IN
        /\ nextDef <= MaxDefs
        /\ ribs[ns][top].kind \notin {"DummyRoot", "LocalBarrier"}
        /\ ribs' = [ribs EXCEPT ![ns][top].defs[ident] = nextDef]
        /\ nextDef' = nextDef + 1
        /\ lookup' = NoLookup
        /\ UNCHANGED notRib

\* RibStacks::resolve called by a use site
rib_resolve ==
    \E ns \in Namespace, ident \in Idents, alias_language \in Languages \cup {NoLanguage} :
        /\ Len(ribs[ns]) > 1
        /\ lookup' = [ns |-> ns, ident |-> ident, language |-> alias_language,
                      stack |-> ribs[ns],
                      result |-> Resolve(ribs[ns], alias_language, ident)]
        /\ UNCHANGED <<ribs, nextDef>>
        /\ UNCHANGED notRib

RibFresh ==
    /\ ribs = RibStacksNew
    /\ nextDef = 1
    /\ lookup = NoLookup

NextRib ==
    \/ enter_new_rib
    \/ leave_rib
    \/ rib_insert
    \/ rib_resolve

\* ------------------------------------------------------------------------
\* The name-resolution visitor  (src/src/resolve/mod.rs, mod resolve_names)
\* ------------------------------------------------------------------------
ScriptLanguage == "anm"       \* language_if_reg / language_if_ins of the script walked

NoDefs == [id \in Idents |-> None]
NoErrors == [flag |-> FALSE, redefinition |-> FALSE, unresolved |-> FALSE]
NoVisit == [kind |-> "none", ident |-> "x", init |-> "none", def |-> None,
            dup |-> FALSE, n |-> 0]
WalkIdle ==
    /\ frames = <<>>
    /\ errors = NoErrors
    /\ visited = NoVisit
    /\ phase = "idle"

\* the items a block can declare: a const or a function of some name
ItemKinds == {"const", "func"}
ItemIdents == {"x"}
ItemChoices == [kind : ItemKinds, name : ItemIdents]
\* a block declares no item, one item, or two items
ItemLists ==
    {<<>>} \cup {<<a>> : a \in ItemChoices} \cup {<<a, b>> : a, b \in ItemChoices}
\* a function takes no parameter, one, or two (of one name or of two names)
ParamLists == {<<>>, <<"x">>, <<"x", "x">>, <<"x", "y">>}

\* Visitor state threaded through one handler
WS(r, d, e) == [ribs |-> r, nextDef |-> d, errors |-> e]

\* RibStacks::enter_new_rib / leave_rib as functions of the stacks
Enter(w, ns, kind, language, of_what) ==
    [w EXCEPT !.ribs[ns] = Append(@, RibNew(ns, kind, language, of_what))]
Leave(w, ns) ==
    [w EXCEPT !.ribs[ns] = SubSeq(@, 1, Len(@) - 1)]

\* Rib::insert -- stores the new entry and returns the old one, if any
RibInsertSilent(rib, ident, def_id) ==
    [rib |-> [rib EXCEPT !.defs[ident] = def_id], old |-> None]
RibInsert(rib, ident, def_id) ==
    [rib |-> [rib EXCEPT !.defs[ident] = def_id], old |-> rib.defs[ident]]

\* ctx.define_* followed by Visitor::add_to_rib_with_redefinition_check
DefineAndAdd(w, ns, ident) ==
    LET top == Len(w.ribs[ns])
        ins == RibInsert(w.ribs[ns][top], ident, w.nextDef)
    IN  [ribs |-> [w.ribs EXCEPT ![ns][top] = ins.rib],
         nextDef |-> w.nextDef + 1,
         errors |-> IF ins.old # None
                      THEN [w.errors EXCEPT !.flag = TRUE, !.redefinition = TRUE]
                      ELSE w.errors]

\* Visitor::add_item_to_scope over the items of a block, in order
RECURSIVE AddItems(_, _)
AddItems(w, items) ==
    IF items = <<>> THEN w
    ELSE AddItems(DefineAndAdd(w, IF Head(items).kind = "func" THEN "Funcs" ELSE "Vars",
                               Head(items).name),
                  Tail(items))

\* for parameters of a function, in order
RECURSIVE AddParams(_, _)
AddParams(w, params) ==
    IF params = <<>> THEN w
    ELSE AddParams(DefineAndAdd(w, "Vars", Head(params)), Tail(params))

\* Visitor::visit_block up to the first statement
BlockEntryLocalsFirst(w, items) ==
    AddItems(Enter(Enter(Enter(w, "Vars", "Locals", NoLanguage, NoCause),
                         "Funcs", "Items", NoLanguage, NoCause),
                   "Vars", "Items", NoLanguage, NoCause),
             items)
BlockEntry(w, items) ==
    Enter(AddItems(Enter(Enter(w, "Funcs", "Items", NoLanguage, NoCause),
                         "Vars", "Items", NoLanguage, NoCause),
                   items),
          "Vars", "Locals", NoLanguage, NoCause)

\* Visitor::visit_block after the last statement
BlockExit(w) == Leave(Leave(Leave(w, "Vars"), "Vars"), "Funcs")

\* the names of the given kind among a block's items, with the DefIds they get
RECURSIVE ItemDefsFrom(_, _, _)
ItemDefsFrom(items, kind, first) ==
    IF items = <<>> THEN NoDefs
    ELSE LET rest == ItemDefsFrom(Tail(items), kind, first + 1) IN
         IF Head(items).kind = kind /\ rest[Head(items).name] = None
           THEN [rest EXCEPT ![Head(items).name] = first]
           ELSE rest

HasDuplicate(q) == \E i, j \in DOMAIN q : i < j /\ q[i] = q[j]
\* two items of one namespace (consts in Vars, functions in Funcs) share a name
ItemsDuplicate(items) == HasDuplicate([i \in DOMAIN items |-> <<items[i].kind, items[i].name>>])

\* the record the visitor keeps of an open block: what the block declares
\* (from the AST) and which of its item statements are still to be visited
Frame(items, firstDef, is_fn, params, firstParam) ==
    [pending |-> items,
     consts |-> ItemDefsFrom(items, "const", firstDef),
     funcs |-> ItemDefsFrom(items, "func", firstDef),
     locals |-> NoDefs,
     is_fn |-> is_fn,
     params |-> [id \in Idents |->
                   IF \E i \in DOMAIN params : params[i] = id
                     THEN firstParam - 1 +
                          (CHOOSE i \in DOMAIN params :
                              params[i] = id /\ \A j \in DOMAIN params : params[j] = id => j <= i)
                     ELSE None]]

\* Visitor::visit_var / visit_callable_name_: resolve, then record or report
UseName(w, ns, ident) == Resolve(w.ribs[ns], ScriptLanguage, ident)

LookupOf(w, ns, ident) ==
    [ns |-> ns, ident |-> ident, language |-> ScriptLanguage, stack |-> w.ribs[ns],
     result |-> UseName(w, ns, ident)]

AfterUse(w, result) ==
    IF result.ok THEN w
    ELSE [w EXCEPT !.errors.flag = TRUE, !.errors.unresolved = TRUE]

Walking == phase = "walking" /\ frames # <<>>
CanVisit == Walking /\ visited.n < MaxStmts
Top == frames[Len(frames)]
Cur == WS(ribs, nextDef, errors)

Commit(w) ==
    /\ ribs' = w.ribs
    /\ nextDef' = w.nextDef
    /\ errors' = w.errors

\* Visitor::visit_file down to the body of the script: the file-level Items
\* ribs are entered, then visit_block starts on the script's block
visit_script ==
    /\ phase = "idle"
    /\ \E items \in ItemLists :
          LET w0 == Enter(Enter(Cur, "Vars", "Items", NoLanguage, NoCause),
                          "Funcs", "Items", NoLanguage, NoCause)
          IN  /\ Commit(BlockEntry(w0, items))
              /\ frames' = <<Frame(items, nextDef, FALSE, <<>>, 0)>>
              /\ visited' = [visited EXCEPT !.kind = "script", !.dup = ItemsDuplicate(items)]
    /\ phase' = "walking"
    /\ lookup' = NoLookup
    /\ UNCHANGED resMap
    /\ UNCHANGED notWalk

\* the scope in which a declaration's initializer is resolved
InitializerScopeAfter(before, after) == after
InitializerScope(before, after) == before

\* Visitor::visit_stmt, StmtKind::Declaration with one variable
visit_stmt_declaration ==
    /\ CanVisit
    /\ \E ident \in Idents, init \in Idents \cup {"none"} :
          LET after == DefineAndAdd(Cur, "Vars", ident)
              scope == InitializerScope(Cur, after)
              lk == LookupOf(scope, "Vars", init)
              w == IF init = "none" THEN after
                   ELSE [after EXCEPT !.errors = AfterUse(after, lk.result).errors]
          IN  /\ Commit(w)
              /\ lookup' = IF init = "none" THEN NoLookup ELSE lk
              /\ resMap' = IF init = "none" THEN resMap ELSE Append(resMap, lk.result.def)
              /\ visited' = [kind |-> "declaration", ident |-> ident, init |-> init,
                             def |-> nextDef, dup |-> visited.dup \/ Top.locals[ident] # None,
                             n |-> visited.n + 1]
              /\ frames' = [frames EXCEPT ![Len(frames)].locals[ident] = nextDef]
    /\ UNCHANGED phase
    /\ UNCHANGED notWalk

\* Visitor::visit_var on a variable read in a statement of the block
visit_var ==
    /\ CanVisit
    /\ \E ident \in Idents :
          LET lk == LookupOf(Cur, "Vars", ident) IN
          /\ Commit(AfterUse(Cur, lk.result))
          /\ lookup' = lk
          /\ resMap' = Append(resMap, lk.result.def)
          /\ visited' = [kind |-> "var", ident |-> ident, init |-> "none", def |-> None,
                         dup |-> visited.dup, n |-> visited.n + 1]
    /\ UNCHANGED <<frames, phase>>
    /\ UNCHANGED notWalk

\* Visitor::visit_call_ on a call statement without arguments
visit_call ==
    /\ CanVisit
    /\ \E ident \in Idents :
          LET lk == LookupOf(Cur, "Funcs", ident) IN
          /\ Commit(AfterUse(Cur, lk.result))
          /\ lookup' = lk
          /\ resMap' = Append(resMap, lk.result.def)
          /\ visited' = [kind |-> "call", ident |-> ident, init |-> "none", def |-> None,
                         dup |-> visited.dup, n |-> visited.n + 1]
    /\ UNCHANGED <<frames, phase>>
    /\ UNCHANGED notWalk

\* Visitor::visit_item, Item::ConstVar, reached through StmtKind::Item
visit_item_const ==
    /\ CanVisit
    /\ Top.pending # <<>>
    /\ Head(Top.pending).kind = "const"
    /\ \E init \in Idents :
          LET inner == Enter(Cur, "Vars", "LocalBarrier", NoLanguage, "const")
              lk == LookupOf(inner, "Vars", init)
              w == Leave(AfterUse(inner, lk.result), "Vars")
          IN  /\ Commit(w)
              /\ lookup' = lk
              /\ resMap' = Append(resMap, lk.result.def)
              /\ visited' = [kind |-> "const", ident |-> Head(Top.pending).name, init |-> init,
                             def |-> None, dup |-> visited.dup, n |-> visited.n + 1]
    /\ frames' = [frames EXCEPT ![Len(frames)].pending = Tail(@)]
    /\ UNCHANGED phase
    /\ UNCHANGED notWalk

\* Visitor::visit_item, Item::Func with a body, down to the first statement
\* of the body
visit_item_func ==
    /\ CanVisit
    /\ Len(frames) < MaxDepth
    /\ Top.pending # <<>>
    /\ Head(Top.pending).kind = "func"
    /\ \E params \in ParamLists, items \in ItemLists :
          LET w1 == AddParams(Enter(Enter(Cur, "Vars", "LocalBarrier", NoLanguage, "function"),
                                    "Vars", "Params", NoLanguage, NoCause),
                              params)
              w2 == BlockEntry(w1, items)
          IN  /\ Commit(w2)
              /\ frames' = Append([frames EXCEPT ![Len(frames)].pending = Tail(@)],
                                   Frame(items, w1.nextDef, TRUE, params, nextDef))
              /\ visited' = [kind |-> "func", ident |-> Head(Top.pending).name, init |-> "none",
                             def |-> None,
                             dup |-> visited.dup \/ HasDuplicate(params) \/ ItemsDuplicate(items),
                             n |-> visited.n + 1]
    /\ lookup' = NoLookup
    /\ UNCHANGED <<phase, resMap>>
    /\ UNCHANGED notWalk

\* Visitor::visit_block entered for a nested block statement
visit_block ==
    /\ CanVisit
    /\ Len(frames) < MaxDepth
    /\ \E items \in ItemLists :
          /\ Commit(BlockEntry(Cur, items))
          /\ frames' = Append(frames, Frame(items, nextDef, FALSE, <<>>, 0))
          /\ visited' = [kind |-> "block", ident |-> "x", init |-> "none", def |-> None,
                         dup |-> visited.dup \/ ItemsDuplicate(items),
                         n |-> visited.n + 1]
    /\ lookup' = NoLookup
    /\ UNCHANGED <<phase, resMap>>
    /\ UNCHANGED notWalk

\* the end of Visitor::visit_block, and of visit_item for a function body
leave_block ==
    /\ Walking
    /\ Top.pending = <<>>
    /\ LET w1 == BlockExit(Cur)
           w2 == IF Top.is_fn THEN Leave(Leave(w1, "Vars"), "Vars") ELSE w1
           w3 == IF Len(frames) = 1 THEN Leave(Leave(w2, "Funcs"), "Vars") ELSE w2
       IN  Commit(w3)
    /\ frames' = SubSeq(frames, 1, Len(frames) - 1)
    /\ phase' = IF Len(frames) = 1 THEN "finished" ELSE phase
    /\ lookup' = NoLookup
    /\ visited' = [visited EXCEPT !.kind = "leave"]
    /\ UNCHANGED resMap
    /\ UNCHANGED notWalk

\* Visitor::finish
finish == IF errors.flag THEN "Err" ELSE "Ok"

NextWalk ==
    \/ visit_script
    \/ visit_stmt_declaration
    \/ visit_var
    \/ visit_call
    \/ visit_item_const
    \/ visit_item_func
    \/ visit_block
    \/ leave_block


\* ------------------------------------------------------------------------
\* The stackless lowerer  (src/src/llir/lower/stackless.rs)
\* ------------------------------------------------------------------------
ScalarTypes == {"Int", "Float"}
Other(ty) == IF ty = "Int" THEN "Float" ELSE "Int"

\* registers the source statement may name, and the literal it may hold
SourceRegs == {10000, 10004}
LitValue == 10000

\* a variable or a literal; for a variable, ty is its read type (the sigil)
Atom(k, id, ty) == [k |-> k, id |-> id, ty |-> ty]
NoAtom == Atom("none", None, "Int")
RegAtoms == {Atom("reg", id, ty) : id \in SourceRegs, ty \in ScalarTypes}
Atoms == RegAtoms \cup {Atom("lit", LitValue, ty) : ty \in ScalarTypes}

\* an operand of the assigned expression: an atom or a binary operation on
\* two atoms, possibly under a cast `_S` (to int) or `_f` (to float)
Casts == {"none", "_S", "_f"}
AtomExpr(x) == [cast |-> "none", shape |-> "atom", x |-> x, y |-> NoAtom]
Operands ==
    {[cast |-> c, shape |-> "atom", x |-> x, y |-> NoAtom] : c \in Casts, x \in Atoms}
    \cup [cast : Casts, shape : {"binop"}, x : Atoms, y : Atoms]

\* TypeSystem::compute_type_shallow on the part under the cast
InnerType(e) == e.x.ty
ExprType(e) ==
    IF e.cast = "_S" THEN "Int" ELSE IF e.cast = "_f" THEN "Float" ELSE InnerType(e)
\* what the type checker lets through
WellTypedExpr(e) ==
    /\ e.shape = "binop" => e.x.ty = e.y.ty
    /\ e.cast = "_S" => InnerType(e) = "Float"
    /\ e.cast = "_f" => InnerType(e) = "Int"
WellTyped(var, a, b) ==
    /\ WellTypedExpr(a) /\ WellTypedExpr(b)
    /\ ExprType(a) = var.ty /\ ExprType(b) = var.ty

RECURSIVE Pow2(_)
Pow2(n) == IF n = 0 THEN 1 ELSE 2 * Pow2(n - 1)
RECURSIVE FloorLog2(_)
FloorLog2(n) == IF n < 2 THEN 0 ELSE 1 + FloorLog2(n \div 2)
\* (number as f32).to_bits() for 0 <= number < 2^24
FloatBits(number) ==
    IF number = 0 THEN 0
    ELSE (FloorLog2(number) + 127) * Pow2(23)
         + (number - Pow2(FloorLog2(number))) * Pow2(23 - FloorLog2(number))

\* LowerArg::Raw and LowerArg::Local
Raw(is_var, bits) ==
    [k |-> "raw", is_var |-> is_var, bits |-> bits, local |-> None, read_ty |-> "none"]
Local(local_id, read_ty) ==
    [k |-> "local", is_var |-> FALSE, bits |-> 0, local |-> local_id, read_ty |-> read_ty]

\* RawArg::from_reg; From<i32> and From<f32> for RawArg
from_reg(number, ty) == Raw(TRUE, IF ty = "Int" THEN number ELSE FloatBits(number))
from_value(value, ty) == Raw(FALSE, IF ty = "Int" THEN value ELSE FloatBits(value))

\* LowerStmt
Instr(opcode, args) == [kind |-> "Instr", opcode |-> opcode, args |-> args, local |-> None]
RegAlloc(local_id) == [kind |-> "RegAlloc", opcode |-> "none", args |-> <<>>, local |-> local_id]
RegFree(local_id) == [kind |-> "RegFree", opcode |-> "none", args |-> <<>>, local |-> local_id]

\* the Lowerer: its output and the locals declared in ty_ctx.variables
Lowerer(out, locals) == [out |-> out, variables |-> locals]
Push(L, s) == [L EXCEPT !.out = Append(@, s)]

lower_var_to_arg(var) ==
    IF var.k = "reg" THEN from_reg(var.id, var.ty) ELSE Local(var.id, var.ty)

classify_expr(e) ==
    IF e.cast # "none"
      THEN [class |-> "NeedsTemp", tmp_expr |-> [e EXCEPT !.cast = "none"],
            tmp_ty |-> IF e.cast = "_S" THEN "Float" ELSE "Int",
            read_ty |-> IF e.cast = "_S" THEN "Int" ELSE "Float"]
      ELSE IF e.shape = "atom"
             THEN [class |-> "Simple",
                   lowered |-> IF e.x.k = "lit" THEN from_value(e.x.id, e.x.ty)
                               ELSE lower_var_to_arg(e.x),
                   ty |-> e.x.ty]
             ELSE [class |-> "NeedsTemp", tmp_expr |-> e,
                   tmp_ty |-> InnerType(e), read_ty |-> InnerType(e)]

\* ast::Var::eq_upto_ty: the same variable, whatever the sigils
eq_upto_ty(var, other) == var.k = other.k /\ var.id = other.id

IsVar(x) == x.k \in {"reg", "local"}

expr_uses_var(e, var) ==
    \/ IsVar(e.x) /\ eq_upto_ty(var, e.x)
    \/ e.shape = "binop" /\ IsVar(e.y) /\ eq_upto_ty(var, e.y)

\* the test of lower_assign_direct_binop for computing an operand into var
ReuseDestWhateverOther(data, other, var) == data.tmp_ty = data.read_ty
ReuseDest(data, other, var) ==
    data.tmp_ty = data.read_ty /\ ~expr_uses_var(other, var)

\* the variable read back with the read type of the temporary expression
ReadAs(var, read_ty) == AtomExpr([var EXCEPT !.ty = read_ty])

\* Lowerer::allocate_temporary
allocate_temporary(L, tmp_ty) ==
    [L |-> Lowerer(Append(L.out, RegAlloc(Len(L.variables) + 1)),
                   Append(L.variables, tmp_ty)),
     local_id |-> Len(L.variables) + 1,
     var |-> Atom("local", Len(L.variables) + 1, tmp_ty)]

RECURSIVE lower_assign_op(_, _, _)
RECURSIVE lower_assign_direct_binop(_, _, _, _)

\* Lowerer::compute_temporary_expr (the instructions; ReadAs gives the expression)
compute_temporary_expr(L, var, data) == lower_assign_op(L, var, data.tmp_expr)

\* Lowerer::define_temporary
define_temporary(L, data) ==
    LET t == allocate_temporary(L, data.tmp_ty) IN
    [L |-> compute_temporary_expr(t.L, t.var, data),
     local_id |-> t.local_id,
     expr |-> ReadAs(t.var, data.read_ty)]

\* Lowerer::undefine_temporary
undefine_temporary(L, local_id) == Push(L, RegFree(local_id))

\* Lowerer::lower_assign_op for `var = rhs`
lower_assign_op(L, var, rhs) ==
    LET data == classify_expr(rhs) IN
    IF data.class = "Simple"
      THEN Push(L, Instr("assign", <<lower_var_to_arg(var), data.lowered>>))
      ELSE IF data.read_ty # data.tmp_ty
             THEN LET d == define_temporary(L, data) IN
                  undefine_temporary(lower_assign_op(d.L, var, d.expr), d.local_id)
             ELSE lower_assign_direct_binop(L, var, AtomExpr(rhs.x), AtomExpr(rhs.y))

\* Lowerer::lower_assign_direct_binop for `var = a OP b`
lower_assign_direct_binop(L, var, a, b) ==
    LET data_a == classify_expr(a)
        data_b == classify_expr(b)
    IN  IF data_a.class = "NeedsTemp"
          THEN IF ReuseDest(data_a, b, var)
                 THEN lower_assign_direct_binop(compute_temporary_expr(L, var, data_a),
                                                var, ReadAs(var, data_a.read_ty), b)
                 ELSE LET d == define_temporary(L, data_a) IN
                      undefine_temporary(lower_assign_direct_binop(d.L, var, d.expr, b),
                                         d.local_id)
          ELSE IF data_b.class = "NeedsTemp"
                 THEN IF ReuseDest(data_b, a, var)
                        THEN lower_assign_direct_binop(compute_temporary_expr(L, var, data_b),
                                                       var, a, ReadAs(var, data_b.read_ty))
                        ELSE LET d == define_temporary(L, data_b) IN
                             undefine_temporary(
                                 lower_assign_direct_binop(d.L, var, a, d.expr), d.local_id)
                 ELSE Push(L, Instr("binop", <<lower_var_to_arg(var),
                                               data_a.lowered, data_b.lowered>>))

\* the arguments of lower_instruction, in order: a complex argument is saved
\* to a temporary, whose id is kept so that its register is freed later
RECURSIVE LowerArgs(_, _)
LowerArgs(args, acc) ==
    IF args = <<>> THEN acc
    ELSE LET data == classify_expr(Head(args)) IN
         IF data.class = "Simple"
           THEN LowerArgs(Tail(args), [acc EXCEPT !.lowered = Append(@, data.lowered)])
           ELSE LET d == define_temporary(acc.L, data) IN
                LowerArgs(Tail(args),
                          [L |-> d.L,
                           lowered |-> Append(acc.lowered, Local(d.local_id, data.read_ty)),
                           temp_local_ids |-> Append(acc.temp_local_ids, d.local_id)])

RECURSIVE UndefineAll(_, _)
UndefineAll(L, ids) ==
    IF ids = <<>> THEN L ELSE UndefineAll(undefine_temporary(L, Head(ids)), Tail(ids))

\* the order in which lower_instruction frees its temporaries
TempFreeOrderAsDefined(ids) == ids
TempFreeOrder(ids) == [i \in DOMAIN ids |-> ids[Len(ids) + 1 - i]]

\* Lowerer::lower_instruction on a call whose arguments have the types of the
\* signature
lower_instruction_with_args(L, opcode, args) ==
    LET low == LowerArgs(args, [L |-> L, lowered |-> <<>>, temp_local_ids |-> <<>>])
    IN  UndefineAll(Push(low.L, Instr(opcode, low.lowered)), TempFreeOrder(low.temp_local_ids))

\* ------------------------------------------------------------------------
\* Scratch-register assignment  (assign_registers, get_used_regs)
\* ------------------------------------------------------------------------
\* InstrFormat::general_use_regs: the pools a format may declare, in order
IntPools == {<<>>, <<10000>>, <<10000, 10001>>}
FloatPools == {<<>>, <<10004>>}
\* InstrFormat::instr_disables_scratch_regs: the opcodes a format may flag
DisablingSets == {{}, {"assign"}, {"binop"}}
Formats == [Int : IntPools, Float : FloatPools, disables : DisablingSets]

general_use_regs(fmt) == [ty \in ScalarTypes |-> fmt[ty]]
instr_disables_scratch_regs(fmt, opcode) == opcode \in fmt.disables

Range(q) == {q[i] : i \in DOMAIN q}
RECURSIVE Retain(_, _)
Retain(q, keep) ==
    IF q = <<>> THEN <<>>
    ELSE IF Head(q) \in keep THEN <<Head(q)>> \o Retain(Tail(q), keep)
         ELSE Retain(Tail(q), keep)
Reverse(q) == [i \in DOMAIN q |-> q[Len(q) + 1 - i]]

\* get_used_regs: the bits of every raw argument flagged as a register
UsedIn(s) ==
    IF s.kind = "Instr"
      THEN {s.args[j].bits :
              j \in {n \in DOMAIN s.args : s.args[n].k = "raw" /\ s.args[n].is_var}}
      ELSE {}
get_used_regs(stmts) == UNION {UsedIn(stmts[i]) : i \in DOMAIN stmts}

NoStmt == [decl |-> FALSE, var |-> NoAtom, a |-> AtomExpr(NoAtom), b |-> AtomExpr(NoAtom)]
NoFormat == [Int |-> <<>>, Float |-> <<>>, disables |-> {}]
NoSweep ==
    [pc |-> 0, used_regs |-> {}, unused_regs |-> [ty \in ScalarTypes |-> <<>>],
     local_regs |-> <<>>, has_used_scratch |-> None, has_anti_scratch_ins |-> FALSE,
     result |-> "none", labels |-> {}, last |-> "none", local |-> None]
LowerIdle ==
    /\ stmt = NoStmt
    /\ code = <<>>
    /\ variables = <<>>
    /\ format = NoFormat
    /\ sw = NoSweep
    /\ lphase = "idle"

\* lower_sub_ast on StmtBody::Assignment: `var = a OP b` on a register
lower_assignment ==
    /\ lphase = "source"
    /\ \E var \in RegAtoms, a \in Operands, b \in Operands :
          /\ WellTyped(var, a, b)
          /\ LET L == lower_assign_direct_binop(Lowerer(<<>>, <<>>), var, a, b) IN
             /\ code' = L.out
             /\ variables' = L.variables
          /\ stmt' = [decl |-> FALSE, var |-> var, a |-> a, b |-> b]
    /\ lphase' = "lowered"
    /\ UNCHANGED <<format, sw>>
    /\ UNCHANGED notLow

\* Lowerer::lower_var_declaration: `T x = a OP b` for a new local x
lower_var_declaration ==
    /\ lphase = "source"
    /\ \E ty \in ScalarTypes, a \in Operands, b \in Operands :
          LET var == Atom("local", 1, ty) IN
          /\ WellTyped(var, a, b)
          /\ LET L == lower_assign_direct_binop(Lowerer(<<RegAlloc(1)>>, <<ty>>), var, a, b) IN
             /\ code' = L.out
             /\ variables' = L.variables
          /\ stmt' = [decl |-> TRUE, var |-> var, a |-> a, b |-> b]
    /\ lphase' = "lowered"
    /\ UNCHANGED <<format, sw>>
    /\ UNCHANGED notLow

\* lower_sub_ast on StmtBody::Expr: a call `ins(a, b);` of an instruction
lower_func_stmt ==
    /\ lphase = "source"
    /\ \E a \in Operands, b \in Operands :
          /\ WellTypedExpr(a) /\ WellTypedExpr(b)
          /\ LET L == lower_instruction_with_args(Lowerer(<<>>, <<>>), "call", <<a, b>>) IN
             /\ code' = L.out
             /\ variables' = L.variables
          /\ stmt' = [decl |-> FALSE, var |-> NoAtom, a |-> a, b |-> b]
    /\ lphase' = "lowered"
    /\ UNCHANGED <<format, sw>>
    /\ UNCHANGED notLow

\* lower_sub_ast on StmtBody::ScopeEnd of the declared local
scope_end ==
    /\ lphase = "lowered"
    /\ stmt.decl
    /\ code' = Append(code, RegFree(stmt.var.id))
    /\ lphase' = "closed"
    /\ UNCHANGED <<stmt, variables, format, sw>>
    /\ UNCHANGED notLow

\* assign_registers before the sweep
assign_registers_begin ==
    /\ lphase \in {"lowered", "closed"}
    /\ LET used_regs == get_used_regs(code) IN
       sw' = [NoSweep EXCEPT
                !.pc = 1,
                !.used_regs = used_regs,
                !.unused_regs = [ty \in ScalarTypes |->
                    Reverse(Retain(general_use_regs(format)[ty],
                                   Range(general_use_regs(format)[ty]) \ used_regs))],
                !.local_regs = [l \in DOMAIN variables |-> None]]
    /\ lphase' = "sweep"
    /\ UNCHANGED <<stmt, code, variables, format>>
    /\ UNCHANGED notLow

Sweeping(kind) ==
    /\ lphase = "sweep"
    /\ sw.result = "none"
    /\ sw.pc <= Len(code)
    /\ code[sw.pc].kind = kind

\* the statements of the sub a diagnostic of assign_registers points at with a
\* primary or secondary label: only a RegAlloc carries a span (its cause), so
\* a label is the position of a RegAlloc
CauseOf(local_id) == CHOOSE i \in DOMAIN code : code[i] = RegAlloc(local_id)
get_or_insert(option, value) == IF option = None THEN value ELSE option

\* what Vec::pop leaves of the free registers of a type
pop_kept(free) == free
pop(free) == SubSeq(free, 1, Len(free) - 1)

\* assign_registers on LowerStmt::RegAlloc
sweep_reg_alloc ==
    /\ Sweeping("RegAlloc")
    /\ LET local_id == code[sw.pc].local
           ty == variables[local_id]
           free == sw.unused_regs[ty]
       IN  IF free = <<>>
             THEN /\ sw' = [sw EXCEPT !.has_used_scratch = get_or_insert(@, sw.pc),
                                       !.result = "too complex",
                                       !.labels = {sw.pc} \cup
                                           {CauseOf(l) : l \in {m \in DOMAIN sw.local_regs :
                                               /\ sw.local_regs[m] # None
                                               /\ variables[m] = ty}},
                                       !.last = "RegAlloc", !.local = local_id]
                  /\ lphase' = "done"
             ELSE /\ sw' = [sw EXCEPT !.has_used_scratch = get_or_insert(@, sw.pc),
                                       !.unused_regs[ty] = pop(free),
                                       !.local_regs[local_id] = free[Len(free)],
                                       !.pc = @ + 1,
                                       !.last = "RegAlloc", !.local = local_id]
                  /\ lphase' = lphase
    /\ UNCHANGED <<stmt, code, variables, format>>
    /\ UNCHANGED notLow

\* assign_registers on LowerStmt::RegFree
sweep_reg_free ==
    /\ Sweeping("RegFree")
    /\ LET local_id == code[sw.pc].local
           inherent_ty == variables[local_id]
       IN  sw' = [sw EXCEPT !.unused_regs[inherent_ty] = Append(@, sw.local_regs[local_id]),
                            !.local_regs[local_id] = None,
                            !.pc = @ + 1,
                            !.last = "RegFree", !.local = local_id]
    /\ UNCHANGED <<stmt, code, variables, format, lphase>>
    /\ UNCHANGED notLow

\* assign_registers on LowerStmt::Instr
sweep_instr ==
    /\ Sweeping("Instr")
    /\ code' = [code EXCEPT ![sw.pc].args =
                   [j \in DOMAIN @ |->
                      IF @[j].k = "local"
                        THEN from_reg(sw.local_regs[@[j].local], @[j].read_ty)
                        ELSE @[j]]]
    /\ sw' = [sw EXCEPT !.has_anti_scratch_ins =
                              @ \/ instr_disables_scratch_regs(format, code[sw.pc].opcode),
                        !.pc = @ + 1,
                        !.last = "Instr", !.local = None]
    /\ UNCHANGED <<stmt, variables, format, lphase>>
    /\ UNCHANGED notLow

\* assign_registers after the sweep
assign_registers_end ==
    /\ lphase = "sweep"
    /\ sw.result = "none"
    /\ sw.pc > Len(code)
    /\ sw' = IF sw.has_anti_scratch_ins /\ sw.has_used_scratch # None
               THEN [sw EXCEPT !.result = "scratch disabled",
                               !.labels = {sw.has_used_scratch},
                               !.last = "end"]
               ELSE [sw EXCEPT !.result = "ok", !.last = "end"]
    /\ lphase' = "done"
    /\ UNCHANGED <<stmt, code, variables, format>>
    /\ UNCHANGED notLow

NextLow ==
    \/ lower_assignment
    \/ lower_var_declaration
    \/ lower_func_stmt
    \/ scope_end
    \/ assign_registers_begin
    \/ sweep_reg_alloc
    \/ sweep_reg_free
    \/ sweep_instr
    \/ assign_registers_end

\* ------------------------------------------------------------------------
\* The statement loop of the lowerer  (Lowerer::lower_sub_ast)
\* ------------------------------------------------------------------------
\* the opcodes that end an EoSD ANM script
Th06AnmTerminating == {0, 15}
\* InstrFormat::is_th06_anm_terminating_instr: false unless the format is
\* EoSD ANM
is_th06_anm_terminating_instr(fmt, opcode) == fmt.th06_anm /\ opcode \in Th06AnmTerminating

\* the formats: EoSD ANM or not, with or without a Jmp intrinsic
SubFormats == [th06_anm : BOOLEAN, has_jmp : BOOLEAN]

\* the statements of a type-checked, desugared sub.  A call of a terminating
\* opcode takes no argument (`ins_0();`); another call may have an argument
\* that needs a temporary.
SubStmts ==
    [kind : {"Call"}, opcode : Th06AnmTerminating, complex : {FALSE}]
    \cup [kind : {"Call"}, opcode : {5}, complex : BOOLEAN]
    \cup [kind : {"Jump", "Label", "ScopeEnd", "NoInstruction", "Block"},
          opcode : {5}, complex : {FALSE}]

RECURSIVE SeqsUpTo(_, _)
SeqsUpTo(S, n) ==
    IF n = 0 THEN {<<>>}
    ELSE LET shorter == SeqsUpTo(S, n - 1) IN
         shorter \cup {Append(q, x) : q \in shorter, x \in S}

\* a low-level statement and the source statement that emitted it; 5 stands
\* for the opcode of any instruction that does not end a script
Low(kind, opcode, from) == [kind |-> kind, opcode |-> opcode, from |-> from]

\* the check made on every statement before it is lowered
StmtAfterEndCallsOnly(end_span, body) == end_span # None /\ body.kind = "Call"
StmtAfterEnd(end_span, body) == end_span # None /\ body.kind # "NoInstruction"

\* Lowerer::lower_instruction: temporaries are defined before the
\* instruction and undefined after it
lower_instruction(out, body, i) ==
    IF body.complex
      THEN out \o <<Low("RegAlloc", 5, i), Low("Instr", 5, i),
                    Low("Instr", body.opcode, i), Low("RegFree", 5, i)>>
      ELSE Append(out, Low("Instr", body.opcode, i))

\* the body of the closure of lower_sub_ast on statement i:
\* the state after it and the error it returned, if any
LowerStmt(s, i) ==
    LET body == s.code[i] IN
    IF StmtAfterEnd(s.end_span, body)
      THEN [s EXCEPT !.errors = Append(@, "statement after end of script")]
    ELSE IF body.kind = "Call"
      THEN [s EXCEPT !.out = lower_instruction(@, body, i),
                     !.end_span = IF is_th06_anm_terminating_instr(s.fmt, body.opcode)
                                    THEN i ELSE @]
    ELSE IF body.kind = "Jump"
      THEN IF s.fmt.has_jmp
             THEN [s EXCEPT !.out = Append(@, Low("Instr", 5, i))]
             ELSE [s EXCEPT !.errors = Append(@, "feature not supported by format")]
    ELSE IF body.kind = "Label"
      THEN [s EXCEPT !.out = Append(@, Low("Label", 5, i))]
    ELSE IF body.kind = "ScopeEnd"
      THEN [s EXCEPT !.out = Append(@, Low("RegFree", 5, i))]
    ELSE IF body.kind = "NoInstruction"
      THEN s
    ELSE [s EXCEPT !.errors = Append(@, "feature not supported by format")]

\* one step of the iteration of lower_sub_ast
lower_sub_stmt ==
    /\ sl.result = "none"
    /\ sl.pc <= Len(sl.code)
    /\ sl' = [LowerStmt(sl, sl.pc) EXCEPT !.pc = sl.pc + 1]
    /\ UNCHANGED notSub

\* collect_with_recovery: every statement was tried, any error fails the sub
lower_sub_collect ==
    /\ sl.result = "none"
    /\ sl.pc > Len(sl.code)
    /\ sl' = [sl EXCEPT !.result = IF sl.errors = <<>> THEN "ok" ELSE "err"]
    /\ UNCHANGED notSub

NextSub ==
    \/ lower_sub_stmt
    \/ lower_sub_collect

\* ------------------------------------------------------------------------
\* Intrinsic ABI matching  (src/src/llir/intrinsic.rs)
\* ------------------------------------------------------------------------
\* ArgEncoding: Dword `S`, Float `f`, JumpOffset `o`, JumpTime `t`, Padding `_`
Encodings == {"S", "f", "o", "t", "_"}

\* IntrinsicInstrKind; a Binop is arithmetic or a comparison
Intrinsics ==
    [kind : {"Jmp", "InterruptLabel", "CountJmp", "CondJmp2B"}, op : {"none"}, ty : {"Int"}]
    \cup [kind : {"AssignOp", "Unop", "CondJmp", "CondJmp2A"}, op : {"none"}, ty : ScalarTypes]
    \cup [kind : {"Binop"}, op : {"arith", "cmp"}, ty : ScalarTypes]

\* ast::Expr::binop_ty_from_arg_ty
binop_ty_from_arg_ty(op, arg_ty) == IF op = "cmp" THEN "Int" ELSE arg_ty

\* abi.arg_encodings().enumerate(): pairs of a zero-based index and an encoding
Enumerate(sig) == [i \in DOMAIN sig |-> [index |-> i - 1, enc |-> sig[i]]]

\* the matching in progress: the encodings not yet removed, the properties
\* found, the error if one was returned
AbiStart(sig) ==
    [encodings |-> Enumerate(sig), num_instr_args |-> Len(sig), err |-> "none",
     padding |-> 0, padding_index |-> Len(sig), jump |-> "none", dest |-> "none",
     inputs |-> 0]
AbiError(st, message) == [st EXCEPT !.err = message]

\* `?`: a step runs only while no error was returned
Then(st, Step(_)) == IF st.err # "none" THEN st ELSE Step(st)

\* first_index = index, for each padding encoding popped
PaddingIndexKept(first_index, index) == first_index
PaddingIndex(first_index, index) == index

\* UnrepresentablePadding::detect_and_remove
RECURSIVE detect_and_remove(_)
detect_and_remove(st) ==
    IF st.encodings # <<>> /\ st.encodings[Len(st.encodings)].enc = "_"
      THEN detect_and_remove([st EXCEPT !.encodings = SubSeq(@, 1, Len(@) - 1),
                                        !.padding = @ + 1,
                                        !.padding_index =
                                            PaddingIndex(@, st.encodings[Len(st.encodings)].index)])
      ELSE st

\* remove_first_where: the position of the first match (0 if none)
FirstWhere(vec, wanted) ==
    IF \E i \in DOMAIN vec : vec[i].enc = wanted
      THEN CHOOSE i \in DOMAIN vec :
               vec[i].enc = wanted /\ \A j \in 1..(i - 1) : vec[j].enc # wanted
      ELSE 0
RemoveAt(vec, i) == SubSeq(vec, 1, i - 1) \o SubSeq(vec, i + 1, Len(vec))

\* the test of JumpArgOrder::find_and_remove on the two indices
JumpArgOrderKindAnyDistance(offset_index, time_index) ==
    IF time_index > offset_index THEN "LocTime" ELSE "TimeLoc"
JumpArgOrderKind(offset_index, time_index) ==
    IF time_index = offset_index + 1 THEN "LocTime"
    ELSE IF time_index + 1 = offset_index THEN "TimeLoc"
    ELSE "error"

\* JumpArgOrder::find_and_remove
find_and_remove(st) ==
    LET o == FirstWhere(st.encodings, "o")
        afterO == IF o = 0 THEN st.encodings ELSE RemoveAt(st.encodings, o)
        t == FirstWhere(afterO, "t")
        afterT == IF t = 0 THEN afterO ELSE RemoveAt(afterO, t)
        rest == [st EXCEPT !.encodings = afterT]
    IN  IF o = 0 THEN AbiError(rest, "missing jump offset ('o')")
        ELSE IF t = 0 THEN [rest EXCEPT !.jump = "Loc"]
        ELSE LET kind == JumpArgOrderKind(st.encodings[o].index, afterO[t].index) IN
             IF kind = "error"
               THEN AbiError(rest, "offset ('o') and time ('t') args must be consecutive")
               ELSE [rest EXCEPT !.jump = kind]

\* the encodings an operand of a type may have
InputEncodingOkLikeOutput(ty_in_ast, encoding) ==
    \/ ty_in_ast = "Int" /\ encoding = "S"
    \/ ty_in_ast = "Float" /\ encoding \in {"f", "S"}
InputEncodingOk(ty_in_ast, encoding) ==
    \/ ty_in_ast = "Int" /\ encoding = "S"
    \/ ty_in_ast = "Float" /\ encoding = "f"

\* OutOperandType::remove
OutRemove(st, ty_in_ast) ==
    IF st.encodings = <<>> THEN AbiError(st, "not enough arguments")
    ELSE LET encoding == Head(st.encodings).enc
             rest == [st EXCEPT !.encodings = Tail(@)]
         IN  IF (ty_in_ast = "Int" /\ encoding = "S") \/ (ty_in_ast = "Float" /\ encoding = "f")
               THEN [rest EXCEPT !.dest = "Natural"]
             ELSE IF ty_in_ast = "Float" /\ encoding = "S"
               THEN [rest EXCEPT !.dest = "FloatAsInt"]
             ELSE AbiError(rest, "output arg has unexpected encoding")

\* InputOperandType::remove (ImmediateInt::remove is the same on an Int)
InRemove(st, ty_in_ast) ==
    IF st.encodings = <<>> THEN AbiError(st, "not enough arguments")
    ELSE LET encoding == Head(st.encodings).enc
             rest == [st EXCEPT !.encodings = Tail(@)]
         IN  IF InputEncodingOk(ty_in_ast, encoding)
               THEN [rest EXCEPT !.inputs = @ + 1]
               ELSE AbiError(rest, "output arg has unexpected encoding")

\* IntrinsicInstrAbiProps::from_abi
from_abi(intrinsic, sig) ==
    LET ty == intrinsic.ty
        Out(st) == OutRemove(st, ty)
        OutInt(st) == OutRemove(st, "Int")
        OutBinop(st) == OutRemove(st, binop_ty_from_arg_ty(intrinsic.op, ty))
        In(st) == InRemove(st, ty)
        InInt(st) == InRemove(st, "Int")
        start == AbiStart(sig)
        kind == intrinsic.kind
        matched ==
            IF kind = "Jmp" THEN Then(detect_and_remove(start), find_and_remove)
            ELSE IF kind = "InterruptLabel" THEN Then(detect_and_remove(start), InInt)
            ELSE IF kind \in {"AssignOp", "Unop"} THEN Then(Out(start), In)
            ELSE IF kind = "Binop" THEN Then(Then(OutBinop(start), In), In)
            ELSE IF kind = "CountJmp" THEN Then(find_and_remove(start), OutInt)
            ELSE IF kind = "CondJmp" THEN Then(Then(find_and_remove(start), In), In)
            ELSE IF kind = "CondJmp2A" THEN Then(In(start), In)
            ELSE find_and_remove(start)
    IN  IF matched.err = "none" /\ matched.encodings # <<>>
          THEN AbiError(matched, "unexpected arg")
          ELSE matched

\* a mapfile binds an intrinsic to an instruction with a signature
from_abi_call ==
    /\ abi.result = "none"
    /\ abi' = [abi EXCEPT !.props = from_abi(abi.intrinsic, abi.sig),
                          !.result = IF from_abi(abi.intrinsic, abi.sig).err = "none"
                                       THEN "ok" ELSE "err"]
    /\ UNCHANGED notAbi

NextAbi ==
    \/ from_abi_call

\* ------------------------------------------------------------------------
\* Label resolution  (gather_label_info, encode_labels in src/src/instr.rs)
\* ------------------------------------------------------------------------
LabelNames == {"a", "b"}
Times == {0, 10}

\* InstrArg: none, or an unresolved Label(l) / TimeOf(l), or a Raw value
NoArg == [k |-> "none", label |-> "none", bits |-> 0]
LabelArgs == {NoArg} \cup [k : {"Label", "TimeOf"}, label : LabelNames, bits : {0}]
RawBits(bits) == [k |-> "Raw", label |-> "none", bits |-> bits]

\* LowLevelStmt::Label and LowLevelStmt::Instr.  A Label holds only the
\* identifier; `time` is the time of the source statement that carries the
\* label, which gather_label_info never sees.
LabelStmts == [kind : {"Label"}, label : LabelNames, time : Times, arg : {NoArg}]
InstrStmts == [kind : {"Instr"}, label : {"none"}, time : Times, arg : LabelArgs]

\* the formats: early STD (InstrFormat06) and later STD (InstrFormat10)
LabelFormats == {"std06", "std10"}

\* InstrFormat::instr_size
instr_size(fmt, instr) ==
    IF fmt = "std06" THEN 20 ELSE 8 + 4 * (IF instr.arg.k = "none" THEN 0 ELSE 1)

\* InstrFormat::encode_label / decode_label; early STD asserts the alignment
encode_label_as_offset(fmt, offset) == [panic |-> FALSE, bits |-> offset]
encode_label_unchecked(fmt, offset) ==
    [panic |-> FALSE, bits |-> IF fmt = "std06" THEN offset \div 20 ELSE offset]
encode_label(fmt, offset) ==
    IF fmt = "std06"
      THEN IF offset % 20 = 0 THEN [panic |-> FALSE, bits |-> offset \div 20]
                              ELSE [panic |-> TRUE, bits |-> 0]
      ELSE [panic |-> FALSE, bits |-> offset]
decode_label(fmt, bits) == IF fmt = "std06" THEN bits * 20 ELSE bits

NoInfo == [time |-> -1, offset |-> -1]
RawLabelInfo(time, offset) == [time |-> time, offset |-> offset]

\* the locals of gather_label_info
GatherStart(initial_offset) ==
    [offset |-> initial_offset, pending_labels |-> <<>>,
     out |-> [l \in LabelNames |-> NoInfo], errors |-> <<>>]

\* `for label in pending_labels.drain(..)`: the labels are entered until one
\* is already in the table, which returns the error; the drain is emptied
\* either way
RECURSIVE InsertPending(_, _, _)
InsertPending(g, labels, instr) ==
    IF labels = <<>> THEN g
    ELSE IF g.out[Head(labels)] = NoInfo
      THEN InsertPending([g EXCEPT !.out[Head(labels)] = RawLabelInfo(instr.time, g.offset)],
                         Tail(labels), instr)
      ELSE [g EXCEPT !.errors = Append(@, "duplicate label")]

\* the closure of gather_label_info on one statement
GatherStmt(fmt, g, thing) ==
    IF thing.kind = "Label"
      THEN [g EXCEPT !.pending_labels = Append(@, thing.label)]
      ELSE LET entered == InsertPending([g EXCEPT !.pending_labels = <<>>],
                                        g.pending_labels, thing)
           IN  IF Len(entered.errors) > Len(g.errors)
                 THEN entered
                 ELSE [entered EXCEPT !.offset = @ + instr_size(fmt, thing)]

RECURSIVE GatherAll(_, _, _)
GatherAll(fmt, g, stmts) ==
    IF stmts = <<>> THEN g ELSE GatherAll(fmt, GatherStmt(fmt, g, Head(stmts)), Tail(stmts))

\* gather_label_info: the errors of the iteration are returned first, then
\* the assertion on pending_labels is made
PendingAssert(g) == g.pending_labels = <<>>
gather_label_info(fmt, initial_offset, stmts) ==
    LET g == GatherAll(fmt, GatherStart(initial_offset), stmts) IN
    IF g.errors # <<>> THEN [result |-> "err", table |-> g.out, errors |-> g.errors]
    ELSE IF ~PendingAssert(g) THEN [result |-> "panic", table |-> g.out, errors |-> <<>>]
    ELSE [result |-> "ok", table |-> g.out, errors |-> <<>>]

\* the closure of encode_labels on one statement: the statement after it
\* and whether it returned the "undefined label" error or panicked
EncodeStmt(fmt, label_info, thing) ==
    IF thing.kind # "Instr" \/ thing.arg.k \notin {"Label", "TimeOf"}
      THEN [stmt |-> thing, err |-> FALSE, panic |-> FALSE]
    ELSE IF label_info[thing.arg.label] = NoInfo
      THEN [stmt |-> thing, err |-> TRUE, panic |-> FALSE]
    ELSE IF thing.arg.k = "TimeOf"
      THEN [stmt |-> [thing EXCEPT !.arg = RawBits(label_info[thing.arg.label].time)],
            err |-> FALSE, panic |-> FALSE]
    ELSE LET e == encode_label(fmt, label_info[thing.arg.label].offset) IN
         [stmt |-> IF e.panic THEN thing ELSE [thing EXCEPT !.arg = RawBits(e.bits)],
          err |-> FALSE, panic |-> e.panic]

\* encode_labels, first half: the label table
encode_labels_gather ==
    /\ lbl.result = "none"
    /\ lbl.phase = "lowered"
    /\ LET info == gather_label_info(lbl.fmt, 0, lbl.code) IN
       lbl' = [lbl EXCEPT !.table = info.table,
                          !.errors = info.errors,
                          !.result = IF info.result = "ok" THEN "none" ELSE info.result,
                          !.phase = "gathered"]
    /\ UNCHANGED notLbl

\* encode_labels, second half: every statement is tried
encode_labels_replace ==
    /\ lbl.result = "none"
    /\ lbl.phase = "gathered"
    /\ LET done == [i \in DOMAIN lbl.code |-> EncodeStmt(lbl.fmt, lbl.table, lbl.code[i])]
           failed == {i \in DOMAIN done : done[i].err}
       IN  lbl' = [lbl EXCEPT
                     !.code = [i \in DOMAIN done |-> done[i].stmt],
                     !.errors = [k \in 1..Cardinality(failed) |-> "undefined label"],
                     !.result = IF \E i \in DOMAIN done : done[i].panic THEN "panic"
                                ELSE IF failed # {} THEN "err" ELSE "ok",
                     !.phase = "encoded"]
    /\ UNCHANGED notLbl

NextLbl ==
    \/ encode_labels_gather
    \/ encode_labels_replace

\* ------------------------------------------------------------------------
\* The early STD label encoding on its own  (InstrFormat06 in src/src/std.rs)
\* ------------------------------------------------------------------------
\* encode_label called on a byte offset; -1 stands for no value
encode_label_call ==
    /\ enc.phase = "offset"
    /\ LET e == encode_label("std06", enc.offset) IN
       enc' = [enc EXCEPT !.phase = "encoded",
                          !.result = IF e.panic THEN "panic" ELSE "ok",
                          !.bits = IF e.panic THEN -1 ELSE e.bits]
    /\ UNCHANGED notEnc

\* decode_label called on the value that was encoded
decode_label_call ==
    /\ enc.phase = "encoded"
    /\ enc.result = "ok"
    /\ enc' = [enc EXCEPT !.phase = "decoded", !.decoded = decode_label("std06", enc.bits)]
    /\ UNCHANGED notEnc

NextEnc ==
    \/ encode_label_call
    \/ decode_label_call

\* ------------------------------------------------------------------------
\* Reading and writing a script  (read_instrs, write_instrs in src/src/instr.rs)
\* ------------------------------------------------------------------------
\* what InstrFormat::read_instr finds in the stream: an instruction, given by
\* its size in bytes, or the end-of-script marker
Terminal == [kind |-> "Terminal", size |-> 0]
StreamInstrs == [kind : {"Instr"}, size : {8, 12}]
StreamItems == StreamInstrs \cup {Terminal}

\* the end offset handed to read_instrs: none (-1) or a byte offset
EndOffsets == {-1, 0, 8, 12, 16, 20, 24}

\* offset.cmp(&end_offset)
cmpNeverEqual(offset, end_offset) == IF offset < end_offset THEN "Less" ELSE "Greater"
cmp(offset, end_offset) ==
    IF offset < end_offset THEN "Less"
    ELSE IF offset = end_offset THEN "Equal"
    ELSE "Greater"

\* read_instrs: one iteration of `for index in 0..`
read_instrs_step ==
    /\ io.phase = "reading"
    /\ IF io.pos > Len(io.stream)
         THEN \* read_instr fails at the end of the input
              io' = [io EXCEPT !.phase = "read", !.result = "err"]
         ELSE LET item == io.stream[io.pos] IN
              IF item.kind = "Terminal"
                THEN io' = [io EXCEPT !.phase = "read", !.result = "ok"]
                ELSE LET offset == io.offset + item.size
                         read == [io EXCEPT !.offset = offset,
                                            !.script = Append(@, item),
                                            !.pos = @ + 1]
                         order == IF io.end_offset = -1 THEN "Less"
                                  ELSE cmp(offset, io.end_offset)
                     IN  IF order = "Less" THEN io' = read
                         ELSE IF order = "Equal"
                           THEN io' = [read EXCEPT !.warned = TRUE, !.phase = "read",
                                                   !.result = "ok"]
                           ELSE io' = [read EXCEPT !.phase = "read", !.result = "err"]
    /\ UNCHANGED notIO

\* write_instrs on the script that was read
write_instrs ==
    /\ io.phase = "read"
    /\ io.result = "ok"
    /\ io' = [io EXCEPT !.phase = "written", !.out = io.script \o <<Terminal>>]
    /\ UNCHANGED notIO

NextIO ==
    \/ read_instrs_step
    \/ write_instrs

\* ------------------------------------------------------------------------
\* The STD compile driver  (compile_std in src/src/formats/std.rs, and the
\* compile_std of src/src/std.rs)
\* ------------------------------------------------------------------------
\* the passes run on the script, in order, each followed by `?`
StdPasses == <<"assign_languages", "resolve_names", "type_check", "forbid_difficulty",
               "evaluate_const_vars", "const_simplify", "desugar_blocks">>
\* the passes of compile_std in src/src/std.rs
OldStdPasses == <<"const_simplify", "resolve_names", "compile_loop">>
Drivers == {"formats/std.rs", "std.rs"}
PassesOf(driver) == IF driver = "formats/std.rs" THEN StdPasses ELSE OldStdPasses

\* ast::Item as told apart by compile_std
StdItems == {"Meta", "Entry", "NumberedScript", "Main", "OtherScript", "ConstVar", "Func"}

\* the loop over script.items: the error it returns, or "none"
RECURSIVE ScanItems(_, _, _)
ScanItems(items, found_meta, found_main_sub) ==
    IF items = <<>>
      THEN IF found_meta /\ found_main_sub THEN "none"
           ELSE IF ~found_meta THEN "missing 'main' sub"
           ELSE "missing 'meta' section"
    ELSE LET item == Head(items) IN
         IF item = "Meta"
           THEN IF found_meta THEN "'meta' supplied multiple times"
                ELSE ScanItems(Tail(items), TRUE, found_main_sub)
         ELSE IF item = "Entry" THEN "unexpected keyword in STD file"
         ELSE IF item = "NumberedScript" THEN "unexpected numbered script in STD file"
         ELSE IF item = "OtherScript" THEN "STD script must be called 'main'"
         ELSE IF item = "Main"
           THEN IF found_main_sub THEN "redefinition of script 'main'"
                ELSE ScanItems(Tail(items), found_meta, TRUE)
         ELSE IF item = "ConstVar" THEN ScanItems(Tail(items), found_meta, found_main_sub)
         ELSE "feature not supported by format"

\* ErrorFlag::set through unwrap_or_else, ErrorFlag::into_result
errors_set_dropped(flag) == flag
errors_set(flag) == TRUE
into_result(flag) == IF flag THEN "err" ELSE "ok"

\* `?`: the error is returned, nothing more of compile_std runs
StageAfterErrorIgnored(stage) == stage
StageAfterError(stage) == "returned"

\* a step of compile_std reported an error and returned it
CsFail(c, step) ==
    [c EXCEPT !.reported = Append(@, step), !.result = "err", !.stage = StageAfterError(@)]

\* one of the passes, which succeeds or reports an error
std_pass ==
    /\ cs.stage = "passes"
    /\ \E ok \in BOOLEAN :
          LET passes == PassesOf(cs.driver)
              started == [cs EXCEPT !.started = Append(@, passes[cs.pass])]
          IN  IF ok
                THEN cs' = IF cs.pass = Len(passes) THEN [started EXCEPT !.stage = "items"]
                           ELSE [started EXCEPT !.pass = @ + 1]
                ELSE cs' = CsFail(started, passes[cs.pass])
    /\ UNCHANGED notCs

\* the search for the meta and the main sub
std_items ==
    /\ cs.stage = "items"
    /\ cs' = IF ScanItems(cs.items, FALSE, FALSE) = "none"
               THEN [cs EXCEPT !.stage = "init_from_meta"]
               ELSE CsFail(cs, "items")
    /\ UNCHANGED notCs

\* StdFile::init_from_meta
std_init_from_meta ==
    /\ cs.stage = "init_from_meta"
    /\ \E ok \in BOOLEAN :
          cs' = IF ok THEN [cs EXCEPT !.stage = "lower_sub"] ELSE CsFail(cs, "init_from_meta")
    /\ UNCHANGED notCs

\* lowerer.lower_sub: an error sets the flag and compilation goes on.
\* In src/src/std.rs: lower_sub_ast_to_instrs(..)? and then Ok(out)
std_lower_sub ==
    /\ cs.stage = "lower_sub"
    /\ \E ok \in BOOLEAN :
          LET started == [cs EXCEPT !.started = Append(@, "lower")]
          IN  cs' = IF cs.driver = "formats/std.rs"
                      THEN IF ok THEN [started EXCEPT !.stage = "finish"]
                           ELSE [started EXCEPT !.stage = "finish",
                                                !.reported = Append(@, "lower_sub"),
                                                !.errors = errors_set(@)]
                      ELSE IF ok THEN [started EXCEPT !.stage = "returned", !.result = "ok"]
                           ELSE CsFail(started, "lower_sub")
    /\ UNCHANGED notCs

\* lowerer.finish
std_finish ==
    /\ cs.stage = "finish"
    /\ \E ok \in BOOLEAN :
          cs' = IF ok THEN [cs EXCEPT !.stage = "into_result"]
                ELSE [cs EXCEPT !.stage = "into_result",
                                !.reported = Append(@, "finish"),
                                !.errors = errors_set(@)]
    /\ UNCHANGED notCs

\* errors.into_result(out)
std_into_result ==
    /\ cs.stage = "into_result"
    /\ cs' = [cs EXCEPT !.stage = "returned", !.result = into_result(cs.errors)]
    /\ UNCHANGED notCs

NextCs ==
    \/ std_pass
    \/ std_items
    \/ std_init_from_meta
    \/ std_lower_sub
    \/ std_finish
    \/ std_into_result

\* ------------------------------------------------------------------------
\* Constant simplification  (src/src/passes/const_simplify.rs)
\* ------------------------------------------------------------------------
\* An expression is [kind, op, value, hex, args]; args are its children.
LitInt(value, hex) == [kind |-> "LitInt", op |-> "none", value |-> value, hex |-> hex, args |-> <<>>]
LitFloat(value) == [kind |-> "LitFloat", op |-> "none", value |-> value, hex |-> FALSE, args |-> <<>>]
VarExpr == [kind |-> "Var", op |-> "none", value |-> 0, hex |-> FALSE, args |-> <<>>]
Unop(op, b) == [kind |-> "Unop", op |-> op, value |-> 0, hex |-> FALSE, args |-> <<b>>]
Binop(a, op, b) == [kind |-> "Binop", op |-> op, value |-> 0, hex |-> FALSE, args |-> <<a, b>>]
Ternary(cond, left, right) ==
    [kind |-> "Ternary", op |-> "none", value |-> 0, hex |-> FALSE, args |-> <<cond, left, right>>]
Call(arg) == [kind |-> "Call", op |-> "none", value |-> 0, hex |-> FALSE, args |-> <<arg>>]

UnopKinds == {"Not", "Neg"}
BinopKinds == {"Add", "Sub", "Mul", "Div", "Rem", "Eq", "Ne", "Lt", "Le", "Gt", "Ge",
               "BitOr", "BitXor", "BitAnd", "LogicOr", "LogicAnd"}

\* i32 arithmetic.  Every intermediate value stays inside the i32 range.
MinI32 == -2147483647 - 1
MaxI32 == -(MinI32 + 1)
\* i32::wrapping_add
wrapping_add(a, b) ==
    IF a > 0 /\ b > 0 /\ a > MaxI32 - b THEN (a + MinI32) + (b + MinI32)
    ELSE IF a < 0 /\ b < 0 /\ a < MinI32 - b THEN (a - MinI32) + (b - MinI32)
    ELSE a + b
\* i32::wrapping_neg
wrapping_neg(x) == IF x = MinI32 THEN MinI32 ELSE -x
\* i32::wrapping_sub
wrapping_sub(a, b) == IF b = MinI32 THEN wrapping_add(a, MinI32) ELSE wrapping_add(a, -b)
\* the low 32 - k bits of t moved up by k bits, as a two's complement i32
ShiftLeft(t, k) ==
    LET m == Pow2(32 - k)
        r == t % m
    IN  (IF 2 * r >= m THEN r - m ELSE r) * Pow2(k)
\* byte j of the two's complement form of a; the top byte carries the sign
ByteOf(a, j) == IF j = 3 THEN a \div Pow2(24) ELSE (a \div Pow2(8 * j)) % 256
\* i32::wrapping_mul: the low 32 bits of the product, summed byte by byte
wrapping_mul(a, b) ==
    LET t0 == ByteOf(a, 0) * ByteOf(b, 0)
        t1 == ByteOf(a, 0) * ByteOf(b, 1) + ByteOf(a, 1) * ByteOf(b, 0)
        t2 == ByteOf(a, 0) * ByteOf(b, 2) + ByteOf(a, 1) * ByteOf(b, 1)
                + ByteOf(a, 2) * ByteOf(b, 0)
        t3 == ByteOf(a, 0) * ByteOf(b, 3) + ByteOf(a, 1) * ByteOf(b, 2)
                + ByteOf(a, 2) * ByteOf(b, 1) + ByteOf(a, 3) * ByteOf(b, 0)
    IN  wrapping_add(wrapping_add(t0, ShiftLeft(t1, 8)),
                     wrapping_add(ShiftLeft(t2, 16), ShiftLeft(t3, 24)))
\* a / b and a % b for b > 0, truncating toward zero as Rust does
TruncDiv(a, b) == IF a >= 0 \/ a % b = 0 THEN a \div b ELSE (a \div b) + 1
TruncRem(a, b) == IF a >= 0 \/ a % b = 0 THEN a % b ELSE (a % b) - b
\* i32::wrapping_div and i32::wrapping_rem for b # 0
wrapping_div(a, b) ==
    IF b > 0 THEN TruncDiv(a, b)
    ELSE IF b = MinI32 THEN (IF a = MinI32 THEN 1 ELSE 0)
    ELSE wrapping_neg(TruncDiv(a, -b))
wrapping_rem(a, b) ==
    IF b > 0 THEN TruncRem(a, b)
    ELSE IF b = MinI32 THEN (IF a = MinI32 THEN 0 ELSE a)
    ELSE TruncRem(a, -b)
\* a bitwise operator applied to the n low bits of the two's complement
\* forms of a and b; the last bit is the sign
RECURSIVE Bitwise(_, _, _, _)
Bitwise(op, a, b, n) ==
    LET x == a % 2
        y == b % 2
        bit == CASE op = "BitXor" -> (x + y) % 2
                 [] op = "BitAnd" -> x * y
                 [] op = "BitOr" -> IF x + y > 0 THEN 1 ELSE 0
    IN  IF n = 1 THEN -bit
        ELSE bit + 2 * Bitwise(op, a \div 2, b \div 2, n - 1)

BoolInt(b) == IF b THEN 1 ELSE 0

\* UnopKind::const_eval_int
unop_const_eval_int(op, x) ==
    CASE op = "Neg" -> wrapping_neg(x)
      [] op = "Not" -> BoolInt(x # 0)

\* UnopKind::const_eval_float; None for an operator without a float form
unop_const_eval_float(op, x) ==
    CASE op = "Neg" -> [some |-> TRUE, value |-> [ty |-> "Float", v |-> -x]]
      [] op = "Not" -> [some |-> FALSE, value |-> [ty |-> "Float", v |-> 0]]

\* BinopKind::const_eval_int; wrapping_div and wrapping_rem panic on b = 0
binop_const_eval_int(op, a, b) ==
    CASE op = "Add" -> wrapping_add(a, b)
      [] op = "Sub" -> wrapping_sub(a, b)
      [] op = "Mul" -> wrapping_mul(a, b)
      [] op = "Div" -> wrapping_div(a, b)
      [] op = "Rem" -> wrapping_rem(a, b)
      [] op = "Eq" -> BoolInt(a = b)
      [] op = "Ne" -> BoolInt(a # b)
      [] op = "Lt" -> BoolInt(a < b)
      [] op = "Le" -> BoolInt(a <= b)
      [] op = "Gt" -> BoolInt(a > b)
      [] op = "Ge" -> BoolInt(a >= b)
      [] op = "LogicOr" -> IF a = 0 THEN b ELSE a
      [] op = "LogicAnd" -> IF a = 0 THEN 0 ELSE b
      [] op \in {"BitXor", "BitAnd", "BitOr"} -> Bitwise(op, a, b, 32)

\* BinopKind::const_eval_float on floats that hold small whole numbers, where
\* +, - and * are exact.  The floats handed to the pass are never divided.
binop_const_eval_float(op, a, b) ==
    CASE op = "Add" -> [some |-> TRUE, value |-> [ty |-> "Float", v |-> a + b]]
      [] op = "Sub" -> [some |-> TRUE, value |-> [ty |-> "Float", v |-> a - b]]
      [] op = "Mul" -> [some |-> TRUE, value |-> [ty |-> "Float", v |-> a * b]]
      [] op = "Eq" -> [some |-> TRUE, value |-> [ty |-> "Int", v |-> BoolInt(a = b)]]
      [] op = "Ne" -> [some |-> TRUE, value |-> [ty |-> "Int", v |-> BoolInt(a # b)]]
      [] op = "Lt" -> [some |-> TRUE, value |-> [ty |-> "Int", v |-> BoolInt(a < b)]]
      [] op = "Le" -> [some |-> TRUE, value |-> [ty |-> "Int", v |-> BoolInt(a <= b)]]
      [] op = "Gt" -> [some |-> TRUE, value |-> [ty |-> "Int", v |-> BoolInt(a > b)]]
      [] op = "Ge" -> [some |-> TRUE, value |-> [ty |-> "Int", v |-> BoolInt(a >= b)]]
      [] OTHER -> [some |-> FALSE, value |-> [ty |-> "Float", v |-> 0]]

\* the operator type checks: `-` takes a number, `!` an integer
unop_check(op, arg_ty) ==
    CASE op = "Neg" -> TRUE
      [] op = "Not" -> arg_ty = "Int"

\* arithmetic and comparison take numbers, the bitwise and logical operators
\* integers; then both sides must have the same type
binop_check(op, a_ty, b_ty) ==
    /\ op \in {"BitXor", "BitAnd", "BitOr", "LogicOr", "LogicAnd"} => a_ty = "Int"
    /\ a_ty = b_ty

\* Expr::as_const: the value of a literal
as_const(e) ==
    CASE e.kind = "LitInt" -> [some |-> TRUE, value |-> [ty |-> "Int", v |-> e.value]]
      [] e.kind = "LitFloat" -> [some |-> TRUE, value |-> [ty |-> "Float", v |-> e.value]]
      [] OTHER -> [some |-> FALSE, value |-> [ty |-> "Int", v |-> 0]]

\* From<i32> for Expr and From<f32> for Expr
into_expr(value) == IF value.ty = "Int" THEN LitInt(value.v, FALSE) ELSE LitFloat(value.v)

\* what visit_expr did to an expression
Visited(e, errs, panic) == [e |-> e, errors |-> errs, panic |-> panic]

\* Sp<UnopKind>::const_eval applied to the Unop e
UnopEval(e, errs) ==
    LET b == as_const(e.args[1])
    IN  IF ~b.some THEN Visited(e, errs, FALSE)
        ELSE IF ~unop_check(e.op, b.value.ty) THEN Visited(e, Append(errs, "type error"), FALSE)
        ELSE IF b.value.ty = "Int"
             THEN Visited(into_expr([ty |-> "Int", v |-> unop_const_eval_int(e.op, b.value.v)]),
                          errs, FALSE)
        ELSE LET r == unop_const_eval_float(e.op, b.value.v)
             IN  IF r.some THEN Visited(into_expr(r.value), errs, FALSE)
                 ELSE Visited(e, errs, TRUE)

\* Sp<BinopKind>::const_eval applied to the Binop e
BinopEval(e, errs) ==
    LET a == as_const(e.args[1])
        b == as_const(e.args[2])
    IN  IF ~(a.some /\ b.some) THEN Visited(e, errs, FALSE)
        ELSE IF ~binop_check(e.op, a.value.ty, b.value.ty)
             THEN Visited(e, Append(errs, "type error"), FALSE)
        ELSE IF a.value.ty = "Int"
             THEN IF e.op \in {"Div", "Rem"} /\ b.value.v = 0 THEN Visited(e, errs, TRUE)
                  ELSE Visited(into_expr([ty |-> "Int",
                                          v |-> binop_const_eval_int(e.op, a.value.v, b.value.v)]),
                               errs, FALSE)
        ELSE LET r == binop_const_eval_float(e.op, a.value.v, b.value.v)
             IN  IF r.some THEN Visited(into_expr(r.value), errs, FALSE)
                 ELSE Visited(e, errs, TRUE)

\* the Ternary arm of visit_expr
TernaryEval(e, errs) ==
    LET cond == as_const(e.args[1])
    IN  IF ~cond.some THEN Visited(e, errs, FALSE)
        ELSE IF cond.value.ty # "Int"
             THEN Visited(e, Append(errs, "ternary condition must be an integer"), FALSE)
        ELSE IF cond.value.v = 0 THEN Visited(e.args[3], errs, FALSE)
        ELSE Visited(e.args[2], errs, FALSE)

\* the child that visit_expr inspects: the one walk_mut_expr has simplified
SimplifiedChildSkipped(before, after) == before
SimplifiedChild(before, after) == after

\* Visitor::visit_expr: simplify the subexpressions, then this expression
RECURSIVE visit_expr(_, _)
RECURSIVE walk_mut_expr(_, _, _)
walk_mut_expr(e, i, acc) ==
    IF i > Len(e.args) \/ acc.panic THEN acc
    ELSE LET r == visit_expr(e.args[i], acc.errors)
         IN  walk_mut_expr(e, i + 1,
                 Visited([acc.e EXCEPT !.args[i] = SimplifiedChild(e.args[i], r.e)],
                         r.errors, r.panic))
visit_expr(e, errs) ==
    LET w == walk_mut_expr(e, 1, Visited(e, errs, FALSE))
    IN  IF w.panic THEN w
        ELSE CASE w.e.kind = "Unop" -> UnopEval(w.e, w.errors)
               [] w.e.kind = "Binop" -> BinopEval(w.e, w.errors)
               [] w.e.kind = "Ternary" -> TernaryEval(w.e, w.errors)
               [] OTHER -> w

\* the expressions handed to the pass: literals, a variable, and operators
\* nested to two levels
ExprAtoms == {LitInt(0, FALSE), LitInt(3, TRUE), LitInt(2147483647, FALSE), LitFloat(2), VarExpr}
RECURSIVE MentionsFloat(_)
MentionsFloat(e) ==
    \/ e.kind = "LitFloat"
    \/ \E i \in DOMAIN e.args : MentionsFloat(e.args[i])
InnerExprs ==
    {Unop(op, b) : op \in UnopKinds, b \in ExprAtoms}
      \cup {Binop(a, op, b) : a \in ExprAtoms, op \in BinopKinds, b \in ExprAtoms}
OuterOperands == {LitInt(0, FALSE), LitInt(3, TRUE), LitFloat(2), VarExpr}
SomeInner ==
    {Binop(LitInt(3, TRUE), "Add", LitInt(2147483647, FALSE)),
     Binop(LitInt(3, TRUE), "Sub", LitInt(3, TRUE)),
     Binop(LitFloat(2), "Mul", LitFloat(2)),
     Binop(LitInt(3, TRUE), "Div", LitInt(0, FALSE)),
     Binop(LitInt(3, TRUE), "Lt", LitFloat(2)),
     Binop(VarExpr, "BitOr", LitInt(3, TRUE)),
     Unop("Not", LitFloat(2)),
     Unop("Neg", LitInt(3, TRUE))}
OuterExprs ==
    {Unop(op, b) : op \in UnopKinds, b \in SomeInner}
      \cup {Binop(a, op, b) : a \in SomeInner \cup OuterOperands, op \in BinopKinds, b \in SomeInner}
      \cup {Ternary(c, l, r) : c \in SomeInner \cup OuterOperands,
                               l \in SomeInner \cup {VarExpr}, r \in SomeInner \cup {LitInt(0, FALSE)}}
      \cup {Call(a) : a \in SomeInner}
SourceExprs ==
    {e \in ExprAtoms \cup InnerExprs \cup OuterExprs :
        ~(e.kind = "Binop" /\ e.op \in {"Div", "Rem"} /\ MentionsFloat(e))}

\* visitor.visit_expr(&mut expr) on a new Visitor
const_simplify_visit ==
    /\ cst.result # "idle"
    /\ cst.phase = "ready"
    /\ LET r == visit_expr(cst.expr, <<>>)
       IN  cst' = [cst EXCEPT !.input = cst.expr,
                              !.expr = IF r.panic THEN cst.expr ELSE r.e,
                              !.errors = r.errors,
                              !.result = IF r.panic THEN "panic" ELSE "none",
                              !.phase = IF r.panic THEN "aborted" ELSE "visited"]
    /\ UNCHANGED notCst

\* visitor.finish(): errors.into_result(()); the caller may then run the
\* pass once more on the expression it holds
const_simplify_finish ==
    /\ cst.result # "idle"
    /\ cst.phase = "visited"
    /\ LET result == IF cst.errors = <<>> THEN "ok" ELSE "err"
       IN  cst' = [cst EXCEPT !.result = result,
                              !.passes = Append(@, [input |-> cst.input, output |-> cst.expr,
                                                    result |-> result]),
                              !.phase = IF Len(cst.passes) = 0 THEN "ready" ELSE "finished"]
    /\ UNCHANGED notCst

NextCst ==
    \/ const_simplify_visit
    \/ const_simplify_finish

\* ------------------------------------------------------------------------
\* Conditional jumps  (src/src/llir/lower/stackless.rs, lower_cond_jump_*)
\* ------------------------------------------------------------------------
\* Conditions are expressions as above; a variable is Var(number).  The label
\* of the goto is 0, and gensym hands out the skip labels 1, 2, ...
Var(number) == [kind |-> "Var", op |-> "none", value |-> number, hex |-> FALSE, args |-> <<>>]
Comparisons == {"Eq", "Ne", "Lt", "Le", "Gt", "Ge"}
GotoLabel == [destination |-> 0]

\* BinOpKind::is_comparison
is_comparison(binop) == binop \in Comparisons

\* CondKeyword::negate
negate(keyword) == IF keyword = "if" THEN "unless" ELSE "if"

\* BinOpKind::negate_comparison
negate_comparison_mirrored(binop) ==
    CASE binop = "Eq" -> "Ne"
      [] binop = "Ne" -> "Eq"
      [] binop = "Le" -> "Ge"
      [] binop = "Ge" -> "Le"
      [] binop = "Lt" -> "Gt"
      [] binop = "Gt" -> "Lt"
negate_comparison(binop) ==
    CASE binop = "Eq" -> "Ne"
      [] binop = "Ne" -> "Eq"
      [] binop = "Le" -> "Gt"
      [] binop = "Ge" -> "Lt"
      [] binop = "Lt" -> "Ge"
      [] binop = "Gt" -> "Le"

\* the Lowerer while it lowers one conditional jump: its out and the gensym
CjLowerer == [out |-> <<>>, gensym |-> 0]

\* lower_cond_jump_comparison on two simple operands
lower_cond_jump_comparison(st, keyword, a, binop, b, goto) ==
    LET op == IF keyword = "if" THEN binop ELSE negate_comparison(binop)
    IN  [st EXCEPT !.out = Append(@, [kind |-> "CondJmp", op |-> op, a |-> a, b |-> b,
                                       label |-> goto.destination])]

\* lower_uncond_jump
lower_uncond_jump(st, goto) ==
    [st EXCEPT !.out = Append(@, [kind |-> "Jmp", op |-> "none", a |-> Var(0), b |-> Var(0),
                                   label |-> goto.destination])]

\* out.push(LowerStmt::Label { .. })
push_label(st, label) ==
    [st EXCEPT !.out = Append(@, [kind |-> "Label", op |-> "none", a |-> Var(0), b |-> Var(0),
                                   label |-> label])]

\* the first match arm of lower_cond_jump_logic_binop
is_easy_case(keyword, binop) ==
    \/ keyword = "if" /\ binop = "LogicOr"
    \/ keyword = "unless" /\ binop = "LogicAnd"

\* lower_cond_jump_expr and lower_cond_jump_logic_binop
RECURSIVE lower_cond_jump_expr(_, _, _, _)
lower_cond_jump_logic_binop(st, keyword, a, binop, b, goto) ==
    IF is_easy_case(keyword, binop)
    THEN lower_cond_jump_expr(lower_cond_jump_expr(st, keyword, a, goto), keyword, b, goto)
    ELSE LET negated_kw == negate(keyword)
             skip_label == st.gensym + 1
             skip_goto == [destination |-> skip_label]
             s0 == [st EXCEPT !.gensym = skip_label]
             s1 == lower_cond_jump_expr(s0, negated_kw, a, skip_goto)
             s2 == lower_cond_jump_expr(s1, negated_kw, b, skip_goto)
         IN  push_label(lower_uncond_jump(s2, goto), skip_label)
lower_cond_jump_expr(st, keyword, expr, goto) ==
    IF expr.kind = "Binop" /\ is_comparison(expr.op)
    THEN lower_cond_jump_comparison(st, keyword, expr.args[1], expr.op, expr.args[2], goto)
    ELSE IF expr.kind = "Binop" /\ expr.op \in {"LogicAnd", "LogicOr"}
    THEN lower_cond_jump_logic_binop(st, keyword, expr.args[1], expr.op, expr.args[2], goto)
    ELSE IF expr.kind = "Unop" /\ expr.op = "Not"
    THEN lower_cond_jump_expr(st, negate(keyword), expr.args[1], goto)
    ELSE lower_cond_jump_comparison(st, keyword, expr, "Ne", LitInt(0, FALSE), goto)

\* the value a simple operand has when the instruction runs
OperandValue(env, e) == IF e.kind = "Var" THEN env[e.value] ELSE e.value

\* the comparison a CondJmp(op, int) instruction makes
Compare(op, x, y) ==
    CASE op = "Eq" -> x = y
      [] op = "Ne" -> x # y
      [] op = "Lt" -> x < y
      [] op = "Le" -> x <= y
      [] op = "Gt" -> x > y
      [] op = "Ge" -> x >= y

\* the position of a label in the code
LabelIndex(out, label) ==
    CHOOSE i \in 1..Len(out) : out[i].kind = "Label" /\ out[i].label = label

\* the conditions handed to the lowerer
CjVars == {1, 2}
CjValues == {0, 1}
CondLeaves ==
    {Binop(Var(1), op, Var(2)) : op \in Comparisons}
      \cup {Var(1), LitInt(0, FALSE), LitInt(3, FALSE)}
CondLiterals == CondLeaves \cup {Unop("Not", c) : c \in CondLeaves}
CondPairs ==
    {Binop(a, op, b) : a \in CondLiterals, op \in {"LogicAnd", "LogicOr"}, b \in CondLiterals}
CondNested ==
    {Binop(Var(1), "Lt", Var(2)), Binop(Var(1), "Eq", Var(2)), Unop("Not", Var(2)),
     Binop(Binop(Var(1), "Le", Var(2)), "LogicAnd", Var(2)),
     Binop(Unop("Not", Var(1)), "LogicOr", Binop(Var(1), "Ge", Var(2))),
     Unop("Not", Binop(Var(2), "LogicAnd", Binop(Var(1), "Ne", Var(2))))}
Conds ==
    CondLiterals \cup CondPairs
      \cup {Unop("Not", c) : c \in CondPairs}
      \cup {Unop("Not", Unop("Not", c)) : c \in CondLeaves}
      \cup {Binop(a, op, b) : a \in CondNested, op \in {"LogicAnd", "LogicOr"}, b \in CondNested}

\* lower_cond_jump on `<keyword> (cond) goto label`
lower_cond_jump ==
    /\ cj.result # "idle"
    /\ cj.phase = "source"
    /\ LET st == lower_cond_jump_expr(CjLowerer, cj.keyword, cj.cond, GotoLabel)
       IN  cj' = [cj EXCEPT !.out = st.out, !.pc = 1, !.phase = "running"]
    /\ UNCHANGED notCj

\* the machine runs the instruction at pc
run_instr ==
    /\ cj.result # "idle"
    /\ cj.phase = "running"
    /\ cj.pc <= Len(cj.out)
    /\ LET instr == cj.out[cj.pc]
           taken == \/ instr.kind = "Jmp"
                    \/ /\ instr.kind = "CondJmp"
                       /\ Compare(instr.op, OperandValue(cj.env, instr.a),
                                  OperandValue(cj.env, instr.b))
       IN  IF ~taken THEN cj' = [cj EXCEPT !.pc = @ + 1, !.steps = @ + 1]
           ELSE IF instr.label = GotoLabel.destination
           THEN cj' = [cj EXCEPT !.result = "jumped", !.phase = "done", !.steps = @ + 1]
           ELSE cj' = [cj EXCEPT !.pc = LabelIndex(cj.out, instr.label), !.steps = @ + 1]
    /\ UNCHANGED notCj

\* the machine runs off the end of the emitted code into the next statement
run_fall_through ==
    /\ cj.result # "idle"
    /\ cj.phase = "running"
    /\ cj.pc > Len(cj.out)
    /\ cj' = [cj EXCEPT !.result = "fell through", !.phase = "done"]
    /\ UNCHANGED notCj

NextCj ==
    \/ lower_cond_jump
    \/ run_instr
    \/ run_fall_through

\* ------------------------------------------------------------------------
\* Unused labels  (src/src/passes/unused_labels.rs)
\* ------------------------------------------------------------------------
\* A statement carries its labels, its body kind, the destination of a jump
\* and the block of a block statement.
Label(ident) == [kind |-> "Label", ident |-> ident]
DifficultyLabel == [kind |-> "Difficulty", ident |-> "none"]
UlStmt(labels, kind, destination, block) ==
    [labels |-> labels, kind |-> kind, destination |-> destination, block |-> block]
JumpKinds == {"Jump", "CondJump"}
BlockKinds == {"Times", "While", "CondChain"}

\* UsedVisitor::visit_stmt: the destination of a Jump or a CondJump is
\* inserted; the override does not call walk_stmt
used_visit_stmt(labels, x) ==
    IF x.kind \in JumpKinds THEN labels \cup {x.destination} ELSE labels

\* ast::walk_block with a visitor that folds a value through visit_stmt
RECURSIVE walk_block_used(_, _, _)
walk_block_used(block, i, labels) ==
    IF i > Len(block) THEN labels
    ELSE walk_block_used(block, i + 1, used_visit_stmt(labels, block[i]))

\* get_used_labels: UsedVisitor.visit_func_body is the default walk_block
get_used_labels(func_body) == walk_block_used(func_body, 1, {})

\* the closure of retain in Visitor::visit_stmt
retain_label(label, used_labels) ==
    IF label.kind = "Label" THEN label.ident \in used_labels ELSE TRUE

\* Visitor::visit_stmt: x.labels.retain(..); the override does not call
\* walk_mut_stmt
visit_stmt(x, used_labels) ==
    [x EXCEPT !.labels = SelectSeq(@, LAMBDA label : retain_label(label, used_labels))]

\* ast::walk_mut_block
walk_mut_block(block, used_labels) ==
    [i \in DOMAIN block |-> visit_stmt(block[i], used_labels)]

\* Function bodies: leaves, block statements around one leaf, and a
\* conditional chain around a loop
UlLabelLists == {<<>>, <<Label("a")>>, <<Label("b")>>, <<DifficultyLabel, Label("a")>>}
UlLeaves ==
    {UlStmt(labels, kind, destination, <<>>) :
        labels \in UlLabelLists, kind \in JumpKinds, destination \in {"a"}}
      \cup {UlStmt(labels, "Jump", "b", <<>>) : labels \in UlLabelLists}
      \cup {UlStmt(labels, "Expr", "none", <<>>) : labels \in UlLabelLists}
UlLoops ==
    {UlStmt(labels, kind, "none", <<leaf>>) :
        labels \in {<<>>, <<Label("a")>>}, kind \in {"Times", "While"}, leaf \in UlLeaves}
UlChains ==
    {UlStmt(<<>>, "CondChain", "none", <<loop>>) :
        loop \in {l \in UlLoops : l.kind = "Times" /\ l.block[1].labels = <<>>}}
UlStmts == UlLeaves \cup UlLoops \cup UlChains
FuncBodies == {<<s>> : s \in UlStmts} \cup {<<s, t>> : s \in UlStmts, t \in UlLeaves}

\* Visitor::visit_func_body on a new Visitor: the used labels are pushed,
\* the block is walked, the set is popped
unused_labels_visit_func_body ==
    /\ ul.result # "idle"
    /\ ul.phase = "source"
    /\ LET used_labels == get_used_labels(ul.body)
       IN  ul' = [ul EXCEPT !.input = ul.body,
                            !.used = used_labels,
                            !.body = walk_mut_block(ul.body, used_labels),
                            !.result = "ok",
                            !.phase = "done"]
    /\ UNCHANGED notUl

NextUl ==
    \/ unused_labels_visit_func_body

\* ------------------------------------------------------------------------
\* The STD file  (read_std, write_std in src/src/formats/std.rs)
\* ------------------------------------------------------------------------
\* The file is a sequence of bytes; a position is a byte offset from the
\* start of the file (start_pos is 0).  An f32 is the u32 of its bits.
\* The format is the one of StB and later (FileFormat10, StdHooks10).

\* f.write_u16, write_i16, write_u32, write_i32, write_f32: little endian,
\* two's complement
LeBytes(value, n) == [j \in 1..n |-> (value \div Pow2(8 * (j - 1))) % 256]
write_u16(value) == LeBytes(value, 2)
write_u32(value) == LeBytes(value, 4)
RECURSIVE Concat(_)
Concat(seqs) == IF seqs = <<>> THEN <<>> ELSE Head(seqs) \o Concat(Tail(seqs))
write_f32s(values) == Concat([i \in DOMAIN values |-> write_u32(values[i])])

\* f.seek_to(pos) and a write over bytes that exist
WriteAt(bytes, pos, new) ==
    [i \in DOMAIN bytes |-> IF i > pos /\ i <= pos + Len(new) THEN new[i - pos] ELSE bytes[i]]

\* Encoded::encode_fixed_size(s, 128) and read_cstring_exact(128)
StringSize == 128
write_string_128(s) == s \o [i \in 1..(StringSize - Len(s)) |-> 0]
CStringEnd(bytes) ==
    IF \E i \in DOMAIN bytes : bytes[i] = 0
      THEN (CHOOSE i \in DOMAIN bytes : bytes[i] = 0 /\ \A j \in 1..(i - 1) : bytes[j] # 0) - 1
      ELSE Len(bytes)

\* write_quad, write_terminal_quad
QuadKind(quad) == IF quad.extra = "Rect" THEN 0 ELSE 1
QuadSize(quad) == IF quad.extra = "Rect" THEN 28 ELSE 36
write_quad(quad) ==
    write_u16(QuadKind(quad)) \o write_u16(QuadSize(quad)) \o write_u16(quad.anm_script)
        \o write_u16(0) \o write_f32s(quad.floats)
write_terminal_quad_unsized == write_u16(-1) \o write_u16(0)
write_terminal_quad == write_u16(-1) \o write_u16(4)

\* write_object
write_object(id, x) ==
    write_u16(id) \o write_u16(x.layer) \o write_f32s(x.pos) \o write_f32s(x.size)
        \o Concat([i \in DOMAIN x.quads |-> write_quad(x.quads[i])])
        \o write_terminal_quad

\* objects.get_index_of(name): the zero-based index, or -1
get_index_of(objects, name) ==
    IF \E i \in DOMAIN objects : objects[i].name = name
      THEN (CHOOSE i \in DOMAIN objects : objects[i].name = name) - 1
      ELSE -1

\* write_instance, write_terminal_instance
write_instance(inst, objects) ==
    write_u16(get_index_of(objects, inst.object)) \o write_u16(inst.unknown)
        \o write_f32s(inst.pos)
write_terminal_instance == Concat([i \in 1..4 |-> write_u32(-1)])

\* StdHooks10::write_instr, write_terminal_instr; llir::write_instrs
write_instr(instr) ==
    write_u32(instr.time) \o write_u16(instr.opcode) \o write_u16(8 + Len(instr.args_blob))
        \o instr.args_blob
write_terminal_instr == Concat([i \in 1..5 |-> write_u32(-1)])
write_script(script) ==
    Concat([i \in DOMAIN script |-> write_instr(script[i])]) \o write_terminal_instr

\* write_std: the bytes written, or the error of write_instance
write_std(std) ==
    LET num_quads == Len(Concat([i \in DOMAIN std.objects |-> std.objects[i].object.quads]))
        header == write_u16(Len(std.objects)) \o write_u16(num_quads)
                    \o write_u32(0) \o write_u32(0)
                    \o write_u32(std.unknown) \o write_string_128(std.extra)
        object_offsets_pos == Len(header)
        table == header \o Concat([i \in DOMAIN std.objects |-> write_u32(0)])
        written == [i \in DOMAIN std.objects |-> write_object(i - 1, std.objects[i].object)]
        object_offsets ==
            [i \in DOMAIN std.objects |-> Len(table) + Len(Concat(SubSeq(written, 1, i - 1)))]
        with_objects == table \o Concat(written)
        instances_offset == Len(with_objects)
        with_instances ==
            with_objects
              \o Concat([i \in DOMAIN std.instances |-> write_instance(std.instances[i], std.objects)])
              \o write_terminal_instance
        script_offset == Len(with_instances)
        all == with_instances \o write_script(std.script)
        patched == WriteAt(WriteAt(WriteAt(all, 4, write_u32(instances_offset)),
                                   8, write_u32(script_offset)),
                           object_offsets_pos,
                           Concat([i \in DOMAIN object_offsets |-> write_u32(object_offsets[i])]))
    IN  IF \E i \in DOMAIN std.instances : get_index_of(std.objects, std.instances[i].object) = -1
          THEN [err |-> "no object named", bytes |-> <<>>]
          ELSE [err |-> "none", bytes |-> patched]

\* reader.read_u16, read_i16, read_u32 at a position.  A u32 of 2^31 or more
\* is read as MaxI32: nothing that is written is that large, and as an
\* offset it lies beyond the end of the file.
Fits(bytes, pos, n) == pos >= 0 /\ pos + n <= Len(bytes)
read_u16(bytes, pos) == bytes[pos + 1] + 256 * bytes[pos + 2]
read_i16(bytes, pos) ==
    IF read_u16(bytes, pos) >= 32768 THEN read_u16(bytes, pos) - 65536 ELSE read_u16(bytes, pos)
read_u32(bytes, pos) ==
    IF read_u16(bytes, pos + 2) >= 32768 THEN MaxI32
    ELSE read_u16(bytes, pos) + 65536 * read_u16(bytes, pos + 2)
read_f32s(bytes, pos, n) == [i \in 1..n |-> read_u32(bytes, pos + 4 * (i - 1))]

\* the outcome of a read: an error, or a value and the position after it
ReadErr(message) == [err |-> message, value |-> <<>>, pos |-> 0]
ReadOk(value, pos) == [err |-> "none", value |-> value, pos |-> pos]

\* read_quad and the loop of read_object: `while let Some(quad)`
RECURSIVE read_quads(_, _, _)
read_quads(bytes, pos, quads) ==
    IF ~Fits(bytes, pos, 4) THEN ReadErr("unexpected end of file")
    ELSE LET kind == read_i16(bytes, pos)
             size == read_u16(bytes, pos + 2)
             floats == IF kind = 0 THEN 5 ELSE 7
         IN  IF kind = -1 /\ size = 4 THEN ReadOk(quads, pos + 4)
             ELSE IF kind \notin {-1, 0, 1} THEN ReadErr("unknown quad type")
             ELSE IF ~((kind = 0 /\ size = 28) \/ (kind = 1 /\ size = 36))
               THEN ReadErr("unexpected size for quad")
             ELSE IF ~Fits(bytes, pos + 4, 4 + 4 * floats) THEN ReadErr("unexpected end of file")
             ELSE IF read_u16(bytes, pos + 6) # 0 THEN ReadErr("unexpected data in quad index field")
             ELSE read_quads(bytes, pos + 8 + 4 * floats,
                             Append(quads, [anm_script |-> read_u16(bytes, pos + 4),
                                            extra |-> IF kind = 0 THEN "Rect" ELSE "Strip",
                                            floats |-> read_f32s(bytes, pos + 8, floats)]))

\* read_object (a non-sequential id is only a warning)
read_object(bytes, pos) ==
    IF ~Fits(bytes, pos, 28) THEN ReadErr("unexpected end of file")
    ELSE LET quads == read_quads(bytes, pos + 28, <<>>)
         IN  IF quads.err # "none" THEN quads
             ELSE ReadOk([layer |-> read_u16(bytes, pos + 2),
                          pos |-> read_f32s(bytes, pos + 4, 3),
                          size |-> read_f32s(bytes, pos + 16, 3),
                          quads |-> quads.value], quads.pos)

\* the key read_std gives to object i
ObjectIdent(i) == <<"object", i>>

\* the objects of read_std: each is sought at its offset
RECURSIVE read_objects(_, _, _, _)
read_objects(bytes, offsets_pos, num_objects, objects) ==
    IF Len(objects) = num_objects THEN ReadOk(objects, 0)
    ELSE LET i == Len(objects)
             object == read_object(bytes, read_u32(bytes, offsets_pos + 4 * i))
         IN  IF object.err # "none" THEN object
             ELSE read_objects(bytes, offsets_pos, num_objects,
                               Append(objects, [name |-> ObjectIdent(i), object |-> object.value]))

\* read_instance and the loop of read_std: `while let Some(instance)`
RECURSIVE read_instances(_, _, _, _)
read_instances(bytes, pos, objects, instances) ==
    IF ~Fits(bytes, pos, 4) THEN ReadErr("unexpected end of file")
    ELSE LET object_id == read_u16(bytes, pos) IN
         IF object_id = 65535 THEN ReadOk(instances, pos + 4)
         ELSE IF object_id >= Len(objects) THEN ReadErr("object index too large")
         ELSE IF ~Fits(bytes, pos + 4, 12) THEN ReadErr("unexpected end of file")
         ELSE read_instances(bytes, pos + 16, objects,
                             Append(instances, [object |-> objects[object_id + 1].name,
                                                unknown |-> read_u16(bytes, pos + 2),
                                                pos |-> read_f32s(bytes, pos + 4, 3)]))

\* StdHooks10::read_instr and llir::read_instrs without an end offset
RECURSIVE read_script(_, _, _)
read_script(bytes, pos, script) ==
    IF ~Fits(bytes, pos, 8) THEN ReadErr("unexpected end of file")
    ELSE LET opcode == read_i16(bytes, pos + 4)
             size == read_u16(bytes, pos + 6)
         IN  IF opcode = -1 THEN ReadOk(script, pos + 8)
             ELSE IF size < 8 \/ ~Fits(bytes, pos + 8, size - 8)
               THEN ReadErr("unexpected end of file")
             ELSE read_script(bytes, pos + size,
                              Append(script, [time |-> read_u32(bytes, pos),
                                              opcode |-> IF opcode < 0 THEN opcode + 65536
                                                         ELSE opcode,
                                              args_blob |-> SubSeq(bytes, pos + 9, pos + size)]))

\* read_std
read_std(bytes) ==
    IF ~Fits(bytes, 0, 16 + StringSize) THEN ReadErr("unexpected end of file")
    ELSE LET num_objects == read_u16(bytes, 0)
             num_quads == read_u16(bytes, 2)
             instances_offset == read_u32(bytes, 4)
             script_offset == read_u32(bytes, 8)
             unknown == read_u32(bytes, 12)
             encoded == SubSeq(bytes, 17, 16 + StringSize)
             extra == SubSeq(encoded, 1, CStringEnd(encoded))
             offsets_pos == 16 + StringSize
         IN  IF ~Fits(bytes, offsets_pos, 4 * num_objects) THEN ReadErr("unexpected end of file")
             ELSE LET objects == read_objects(bytes, offsets_pos, num_objects, <<>>) IN
                  IF objects.err # "none" THEN objects
                  ELSE IF num_quads # Len(Concat([i \in DOMAIN objects.value |->
                                                      objects.value[i].object.quads]))
                    THEN ReadErr("panic: assert_eq num_quads")
                  ELSE LET instances == read_instances(bytes, instances_offset, objects.value, <<>>) IN
                       IF instances.err # "none" THEN instances
                       ELSE LET script == read_script(bytes, script_offset, <<>>) IN
                            IF script.err # "none" THEN script
                            ELSE ReadOk([unknown |-> unknown, extra |-> extra,
                                         objects |-> objects.value,
                                         instances |-> instances.value,
                                         script |-> script.value], script.pos)

\* One is the bits of an f32.
\* StdFiles: up to two objects of up to two quads, up to two instances that
\* name an object or a name no object has, up to two instructions
One == Pow2(30)
StdQuads ==
    {[anm_script |-> 3, extra |-> "Rect", floats |-> <<0, One, 0, One, One>>],
     [anm_script |-> 7, extra |-> "Strip", floats |-> <<One, 0, 0, 0, One, 0, One>>]}
StdObjects ==
    {[layer |-> 2, pos |-> <<0, One, 0>>, size |-> <<One, One, 0>>, quads |-> quads] :
        quads \in {q \in SeqsUpTo(StdQuads, 2) : Len(q) = 2 => q[1].extra # q[2].extra}}
StdNamings == {"object", "custom"}
NamedObjects(naming, objects) ==
    [i \in DOMAIN objects |-> [name |-> <<naming, i - 1>>, object |-> objects[i]]]
StdInstances(naming) ==
    [object : {<<naming, 0>>, <<naming, 1>>}, unknown : {256}, pos : {<<One, 0, One>>}]
StdInstrs == [time : {60}, opcode : {1, 65535}, args_blob : {<<5, 0, 0, 0>>}]
StdFiles ==
    {[unknown |-> 0, extra |-> extra, objects |-> NamedObjects(naming, objects),
      instances |-> instances, script |-> script] :
        extra \in {<<>>, <<97, 98>>},
        naming \in StdNamings,
        objects \in SeqsUpTo(StdObjects, 2),
        instances \in UNION {SeqsUpTo(StdInstances(n), 2) : n \in StdNamings},
        script \in SeqsUpTo(StdInstrs, 2)}

\* StdFile::write_to_stream
std_write ==
    /\ sf.result # "idle"
    /\ sf.phase = "built"
    /\ LET w == write_std(sf.std)
       IN  sf' = [sf EXCEPT !.bytes = w.bytes,
                            !.result = IF w.err = "none" THEN "written" ELSE "write error",
                            !.phase = IF w.err = "none" THEN "written" ELSE "done"]
    /\ UNCHANGED notSf

\* StdFile::read_from_stream on the bytes written
std_read ==
    /\ sf.result # "idle"
    /\ sf.phase = "written"
    /\ LET r == read_std(sf.bytes)
       IN  sf' = [sf EXCEPT !.read = r.value,
                            !.result = IF r.err = "none" THEN "read" ELSE "read error",
                            !.phase = "done"]
    /\ UNCHANGED notSf

NextSf ==
    \/ std_write
    \/ std_read

\* ------------------------------------------------------------------------
\* Specifications
\* ------------------------------------------------------------------------
InitRes ==
    /\ ResFresh
    /\ RibFresh
    /\ WalkIdle
    /\ LowerIdle
    /\ AuxIdle
    /\ PassIdle

SpecRes == InitRes /\ [][NextRes]_vars

\* Visitor::new on a context without mapfiles
InitWalk ==
    /\ ResFresh
    /\ RibFresh
    /\ WalkIdle
    /\ LowerIdle
    /\ AuxIdle
    /\ PassIdle

SpecWalk == InitWalk /\ [][NextWalk]_vars

InitRib ==
    /\ RibFresh
    /\ ResFresh
    /\ WalkIdle
    /\ LowerIdle
    /\ AuxIdle
    /\ PassIdle

SpecRib == InitRib /\ [][NextRib]_vars

InitLow ==
    /\ ResFresh
    /\ RibFresh
    /\ WalkIdle
    /\ stmt = NoStmt
    /\ code = <<>>
    /\ variables = <<>>
    /\ format \in Formats
    /\ sw = NoSweep
    /\ lphase = "source"
    /\ AuxIdle
    /\ PassIdle

SpecLow == InitLow /\ [][NextLow]_vars

CoreIdle ==
    /\ ResFresh
    /\ RibFresh
    /\ WalkIdle
    /\ LowerIdle

\* lower_sub_ast called on a sub
InitSub ==
    /\ CoreIdle
    /\ sl \in [code : SeqsUpTo(SubStmts, MaxSub), fmt : SubFormats, pc : {1}, out : {<<>>},
                end_span : {None}, errors : {<<>>}, result : {"none"}]
    /\ abi = Idle
    /\ lbl = Idle
    /\ enc = Idle
    /\ io = Idle
    /\ cs = Idle
    /\ PassIdle

SpecSub == InitSub /\ [][NextSub]_vars

\* from_abi called on an intrinsic and the signature of its instruction
InitAbi ==
    /\ CoreIdle
    /\ \E intrinsic \in Intrinsics, sig \in SeqsUpTo(Encodings, MaxSig) :
          abi = [intrinsic |-> intrinsic, sig |-> sig, props |-> AbiStart(sig),
                 result |-> "none"]
    /\ sl = Idle
    /\ lbl = Idle
    /\ enc = Idle
    /\ io = Idle
    /\ cs = Idle
    /\ PassIdle

SpecAbi == InitAbi /\ [][NextAbi]_vars

\* lower_sub_ast_to_instrs after lower_sub_ast: the code still holds its
\* labels and unresolved label arguments
InitLbl ==
    /\ CoreIdle
    /\ \E stmts \in SeqsUpTo(LabelStmts \cup InstrStmts, MaxCode), fmt \in LabelFormats :
          lbl = [source |-> stmts, code |-> stmts, fmt |-> fmt,
                 table |-> [l \in LabelNames |-> NoInfo], errors |-> <<>>,
                 result |-> "none", phase |-> "lowered"]
    /\ sl = Idle
    /\ abi = Idle
    /\ enc = Idle
    /\ io = Idle
    /\ cs = Idle
    /\ PassIdle

SpecLbl == InitLbl /\ [][NextLbl]_vars

\* a jump target at some byte offset of an early STD script
InitEnc ==
    /\ CoreIdle
    /\ \E offset \in 0..MaxOffset :
          enc = [offset |-> offset, bits |-> -1, decoded |-> -1,
                 result |-> "none", phase |-> "offset"]
    /\ sl = Idle
    /\ abi = Idle
    /\ lbl = Idle
    /\ io = Idle
    /\ cs = Idle
    /\ PassIdle

SpecEnc == InitEnc /\ [][NextEnc]_vars

\* read_instrs called at the start of a script, with or without an end offset
InitIO ==
    /\ CoreIdle
    /\ \E stream \in SeqsUpTo(StreamItems, MaxStream), end_offset \in EndOffsets :
          io = [stream |-> stream, end_offset |-> end_offset, pos |-> 1, offset |-> 0,
                script |-> <<>>, warned |-> FALSE, out |-> <<>>,
                result |-> "none", phase |-> "reading"]
    /\ sl = Idle
    /\ abi = Idle
    /\ lbl = Idle
    /\ enc = Idle
    /\ cs = Idle
    /\ PassIdle

SpecIO == InitIO /\ [][NextIO]_vars

\* compile_std called on a parsed script file
InitCs ==
    /\ CoreIdle
    /\ \E items \in SeqsUpTo(StdItems, MaxStdItems), driver \in Drivers :
          cs = [driver |-> driver, items |-> items, stage |-> "passes", pass |-> 1,
                started |-> <<>>, reported |-> <<>>,
                errors |-> FALSE, result |-> "none"]
    /\ sl = Idle
    /\ abi = Idle
    /\ lbl = Idle
    /\ enc = Idle
    /\ io = Idle
    /\ PassIdle

SpecCs == InitCs /\ [][NextCs]_vars

\* const_simplify applied to an expression of the script
InitCst ==
    /\ CoreIdle
    /\ AuxIdle
    /\ \E e \in SourceExprs :
          cst = [expr |-> e, input |-> e, errors |-> <<>>, passes |-> <<>>,
                 result |-> "none", phase |-> "ready"]
    /\ cj = Idle
    /\ ul = Idle
    /\ sf = Idle

SpecCst == InitCst /\ [][NextCst]_vars

\* a conditional jump of the sub, and the values its variables will hold
InitCj ==
    /\ CoreIdle
    /\ AuxIdle
    /\ \E cond \in Conds, keyword \in {"if", "unless"}, env \in [CjVars -> CjValues] :
          cj = [cond |-> cond, keyword |-> keyword, env |-> env, out |-> <<>>, pc |-> 0,
                steps |-> 0, result |-> "none", phase |-> "source"]
    /\ cst = Idle
    /\ ul = Idle
    /\ sf = Idle

SpecCj == InitCj /\ [][NextCj]_vars

InitUl ==
    /\ CoreIdle
    /\ AuxIdle
    /\ \E func_body \in FuncBodies :
          ul = [body |-> func_body, input |-> <<>>, used |-> {}, result |-> "none",
                phase |-> "source"]
    /\ cst = Idle
    /\ cj = Idle
    /\ sf = Idle

SpecUl == InitUl /\ [][NextUl]_vars

\* a StdFile handed to write_to_stream
InitSf ==
    /\ CoreIdle
    /\ AuxIdle
    /\ \E std \in StdFiles :
          sf = [std |-> std, bytes |-> <<>>, read |-> <<>>, result |-> "none", phase |-> "built"]
    /\ cst = Idle
    /\ cj = Idle
    /\ ul = Idle

SpecSf == InitSf /\ [][NextSf]_vars

\* ------------------------------------------------------------------------
\* Properties of the resolution map
\* ------------------------------------------------------------------------

\* C3: every resolution id maps to no DefId or to exactly one DefId, and once
\* an id maps to a DefId no later call leaves it mapped to another DefId or
\* to none.
ResolutionNeverChanges ==
    [][ /\ \A r \in DOMAIN resMap :
             /\ resMap[r] \in 0..MaxRes
             /\ resMap[r] # None => (r \in DOMAIN resMap' /\ resMap'[r] = resMap[r])
      ]_vars

\* a resolved id was the target of a later record call
WitnessRerecordAttempt ==
    /\ resCall.pre # None
    /\ resCall.res \in DOMAIN resMap
    /\ resMap[resCall.res] = resCall.pre

\* C4 (as stated): recording on an identifier that already has a resolution is
\* always reported as an internal error, even for an equal DefId.
RerecordAlwaysDetected ==
    resCall.pre # None => resCall.outcome = "bug"

\* C4 (amended): a second recording is reported as an internal error unless it
\* is a self-resolution that records the DefId already stored.
RerecordDetectedExceptSelf ==
    (resCall.pre # None /\ ~(resCall.isSelf /\ resCall.pre = resCall.def))
        <=> resCall.outcome = "bug"

\* a plain record_resolution of the very DefId already stored was rejected
WitnessSameDefRejected ==
    /\ resCall.pre # None
    /\ resCall.pre = resCall.def
    /\ ~resCall.isSelf
    /\ resCall.outcome = "bug"

\* ------------------------------------------------------------------------
\* Properties of RibStacks::resolve
\* ------------------------------------------------------------------------

\* ribs of the looked-up stack that hold the identifier and are not Mapfile
\* ribs of a language other than the one the use site expects
Candidates(lk) ==
    {i \in DOMAIN lk.stack :
        /\ lk.stack[i].defs[lk.ident] # None
        /\ ~(lk.stack[i].kind = "Mapfile" /\ lk.stack[i].language # lk.language)}

FirstCandidate(lk) == CHOOSE i \in Candidates(lk) : \A j \in Candidates(lk) : j <= i

BelowBarrier(lk, i) == \E j \in DOMAIN lk.stack : j > i /\ lk.stack[j].kind = "LocalBarrier"

LookupHitsBlockedLocal(lk) ==
    /\ Candidates(lk) # {}
    /\ holds_locals(lk.stack[FirstCandidate(lk)].kind)
    /\ BelowBarrier(lk, FirstCandidate(lk))

WrongLanguageDefs(lk) ==
    {lk.stack[i].defs[lk.ident] : i \in
        {j \in DOMAIN lk.stack : /\ lk.stack[j].kind = "Mapfile"
                                  /\ lk.stack[j].language # lk.language
                                  /\ lk.stack[j].defs[lk.ident] # None}}

\* C6: resolve never returns a DefId of a Mapfile rib whose language differs
\* from the one expected at the use site; the rib is skipped and the search
\* goes on in the ribs below it.
MapfileLanguageRespected ==
    /\ lookup.result.ok => lookup.result.def \notin WrongLanguageDefs(lookup)
    /\ (Candidates(lookup) # {} /\ ~LookupHitsBlockedLocal(lookup)) =>
          /\ lookup.result.ok
          /\ lookup.result.def = lookup.stack[FirstCandidate(lookup)].defs[lookup.ident]

\* a lookup that skipped a wrong-language Mapfile rib and found the name in
\* a rib below it
WitnessSkippedMapfile ==
    /\ lookup.result.ok
    /\ \E i \in DOMAIN lookup.stack :
          /\ lookup.stack[i].kind = "Mapfile"
          /\ lookup.stack[i].language # lookup.language
          /\ lookup.stack[i].defs[lookup.ident] # None
          /\ i > FirstCandidate(lookup)

\* ------------------------------------------------------------------------
\* The walk: declarations, items and redefinitions
\* ------------------------------------------------------------------------
DeclarationVisited == phase = "walking" /\ visited.kind = "declaration"

SameFunction(i) == \A j \in (i + 1)..Len(frames) : ~frames[j].is_fn

\* the open blocks that have declared a local of the name so far and from
\* which the current statement is reached without entering a function item
BlocksWithLocal(ident) ==
    {i \in DOMAIN frames : frames[i].locals[ident] # None /\ SameFunction(i)}

\* the open blocks that declare the name in the Vars namespace at all
BlocksDeclaring(ident) ==
    {i \in DOMAIN frames : \/ frames[i].locals[ident] # None
                            \/ frames[i].consts[ident] # None
                            \/ frames[i].params[ident] # None}

Innermost(S) == CHOOSE i \in S : \A j \in S : j <= i

VarUsed == phase = "walking" /\ visited.kind = "var"
CallUsed == phase = "walking" /\ visited.kind = "call"

\* C8 (as stated): an item of the block is visible to every statement of the
\* block, and a local declared earlier in the block or in an enclosing block
\* is what a use of its name resolves to, whatever same-named items exist.
LocalShadowsAnyItem ==
    /\ VarUsed =>
          IF BlocksWithLocal(lookup.ident) # {}
            THEN /\ lookup.result.ok
                 /\ lookup.result.def =
                       frames[Innermost(BlocksWithLocal(lookup.ident))].locals[lookup.ident]
            ELSE Top.consts[lookup.ident] # None =>
                    lookup.result.ok /\ lookup.result.def = Top.consts[lookup.ident]
    /\ CallUsed =>
          (Top.funcs[lookup.ident] # None =>
              lookup.result.ok /\ lookup.result.def = Top.funcs[lookup.ident])

\* C8 (amended): a use of a variable name resolves in the innermost open
\* block that declares the name; there a local declared so far wins over a
\* const item of the block, which wins over a parameter, so that a local
\* shadows the items of its own and of enclosing blocks but is shadowed by an
\* item of a nested block.  A local or parameter reached across a function
\* item is an error.  An item of the block is found by uses before and after
\* the item; a name no open block declares is unknown.
InnermostDeclarationWins ==
    /\ VarUsed =>
          LET id == lookup.ident IN
          IF BlocksDeclaring(id) = {}
            THEN ~lookup.result.ok /\ lookup.result.err = "unknown"
            ELSE LET f == frames[Innermost(BlocksDeclaring(id))]
                     same == SameFunction(Innermost(BlocksDeclaring(id)))
                 IN  IF f.locals[id] # None
                       THEN IF same
                              THEN lookup.result.ok /\ lookup.result.def = f.locals[id]
                              ELSE /\ ~lookup.result.ok
                                   /\ lookup.result.err = "cannot use local from outside"
                       ELSE IF f.consts[id] # None
                              THEN lookup.result.ok /\ lookup.result.def = f.consts[id]
                              ELSE IF same
                                     THEN lookup.result.ok /\ lookup.result.def = f.params[id]
                                     ELSE /\ ~lookup.result.ok
                                          /\ lookup.result.err = "cannot use local from outside"
    /\ CallUsed =>
          LET id == lookup.ident
              declaring == {i \in DOMAIN frames : frames[i].funcs[id] # None}
          IN  IF declaring = {}
                THEN ~lookup.result.ok /\ lookup.result.err = "unknown"
                ELSE /\ lookup.result.ok
                     /\ lookup.result.def = frames[Innermost(declaring)].funcs[id]

\* a use in a nested block of a name that the enclosing block declared as a
\* local and the nested block declares as a const item: the item is found
WitnessNestedItemOverLocal ==
    /\ VarUsed
    /\ Len(frames) > 1
    /\ ~Top.is_fn
    /\ frames[Len(frames) - 1].locals[lookup.ident] # None
    /\ Top.locals[lookup.ident] = None
    /\ Top.consts[lookup.ident] # None
    /\ lookup.result.ok
    /\ lookup.result.def = Top.consts[lookup.ident]

\* C9: once two locals, two parameters or two items of one namespace with
\* the same name have been added to the same rib, the error flag is set by
\* a redefinition diagnostic and the pass finishes with Err.
RedefinitionIsReported ==
    visited.dup => (errors.flag /\ errors.redefinition /\ finish = "Err")

\* a finished walk over a script that declared a name twice in one rib
WitnessRedefinitionFailsPass ==
    /\ phase = "finished"
    /\ visited.dup
    /\ finish = "Err"

\* ------------------------------------------------------------------------
\* Lowering and scratch registers
\* ------------------------------------------------------------------------
\* the register ids the source statement names directly, whatever the sigil
AtomRegs(x) == IF x.k = "reg" THEN {x.id} ELSE {}
ExprRegs(e) == AtomRegs(e.x) \cup (IF e.shape = "binop" THEN AtomRegs(e.y) ELSE {})
ReferencedRegs == AtomRegs(stmt.var) \cup ExprRegs(stmt.a) \cup ExprRegs(stmt.b)

\* C1 (as stated): no local, declared or temporary, is ever given a register
\* that the sub names directly, before or after the allocation, be the
\* register read as int or as float.
ScratchAvoidsReferencedRegs ==
    \A l \in DOMAIN sw.local_regs :
        sw.local_regs[l] # None => sw.local_regs[l] \notin ReferencedRegs

Complex(e) == e.cast # "none" \/ e.shape = "binop"
AtomIs(x, var) == x.k = var.k /\ x.id = var.id
Reads(e, var) == AtomIs(e.x, var) \/ (e.shape = "binop" /\ AtomIs(e.y, var))

\* the instruction of the operation itself: the last one emitted
FinalIdx == CHOOSE i \in DOMAIN code :
                code[i].kind = "Instr" /\ \A j \in DOMAIN code : j > i => code[j].kind # "Instr"
SlotA == code[FinalIdx].args[2]
SlotB == code[FinalIdx].args[3]

\* the operand was computed by an earlier instruction into the destination
\* and is read from there
IntoDest(slot, e) ==
    /\ slot = lower_var_to_arg([stmt.var EXCEPT !.ty = ExprType(e)])
    /\ \E j \in 1..(FinalIdx - 1) :
          code[j].kind = "Instr" /\ code[j].args[1] = lower_var_to_arg(stmt.var)

\* the operand was computed by an earlier instruction into a local that was
\* allocated for it, of the type of the expression under the cast
IntoTemporary(slot, e) ==
    /\ slot.k = "local"
    /\ ~(stmt.var.k = "local" /\ slot.local = stmt.var.id)
    /\ variables[slot.local] = InnerType(e)
    /\ slot.read_ty = ExprType(e)
    /\ \E i \in 1..(FinalIdx - 1) :
          /\ code[i] = RegAlloc(slot.local)
          /\ \A h \in 1..(i - 1) : code[h].local # slot.local
          /\ \E j \in (i + 1)..(FinalIdx - 1) :
                /\ code[j].kind = "Instr"
                /\ code[j].args[1].k = "local"
                /\ code[j].args[1].local = slot.local

\* the first operand sits in the destination when the second is lowered
FirstSitsInDest == Complex(stmt.a) /\ stmt.a.cast = "none" /\ ~Reads(stmt.b, stmt.var)

\* C2: in `v = a OP b` a complex operand is computed into v exactly when it
\* needs no cast and the other operand does not read v, names of one
\* register being one variable whatever their sigils; otherwise it is
\* computed into a newly allocated temporary.
ComplexOperandPlacement ==
    (lphase = "lowered" /\ stmt.var.k # "none") =>
        /\ Complex(stmt.a) =>
              IF stmt.a.cast = "none" /\ ~Reads(stmt.b, stmt.var)
                THEN IntoDest(SlotA, stmt.a)
                ELSE IntoTemporary(SlotA, stmt.a)
        /\ Complex(stmt.b) =>
              IF /\ stmt.b.cast = "none"
                 /\ ~(IF Complex(stmt.a) THEN FirstSitsInDest ELSE Reads(stmt.a, stmt.var))
                THEN IntoDest(SlotB, stmt.b)
                ELSE IntoTemporary(SlotB, stmt.b)

\* `$R = (x OP y) OP _S(%R ...)`: the second operand reads the destination
\* register under the other sigil, so the first went to a temporary
WitnessAliasForcesTemporary ==
    /\ lphase = "lowered"
    /\ stmt.var.k = "reg"
    /\ stmt.a.cast = "none" /\ stmt.a.shape = "binop"
    /\ stmt.b.x.k = "reg" /\ stmt.b.x.id = stmt.var.id /\ stmt.b.x.ty # stmt.var.ty
    /\ SlotA.k = "local"

\* the registers held by live locals other than the one of the last step
HeldByOthers ==
    {sw.local_regs[l] : l \in {m \in DOMAIN sw.local_regs :
                                  m # sw.local /\ sw.local_regs[m] # None}}

HasRegAlloc == \E i \in DOMAIN code : code[i].kind = "RegAlloc"

\* C10 (as stated): a RegAlloc of type T fails as too complex exactly when
\* every general-use register of type T is named directly in the sub or held
\* by a live local; with no general-use registers at all a sub compiles
\* exactly when it has no RegAlloc.
AllocFailsExactlyWhenExhausted ==
    /\ (lphase \in {"sweep", "done"} /\ sw.last = "RegAlloc") =>
          (sw.result = "too complex" <=>
              \A r \in Range(general_use_regs(format)[variables[sw.local]]) :
                  r \in ReferencedRegs \/ r \in HeldByOthers)
    /\ (lphase = "done" /\ format.Int = <<>> /\ format.Float = <<>>) =>
          IF HasRegAlloc THEN sw.result = "too complex" ELSE sw.result = "ok"

\* ------------------------------------------------------------------------
\* Properties of the scratch-disabling instructions
\* ------------------------------------------------------------------------

DisablingInstrs ==
    {i \in DOMAIN code : code[i].kind = "Instr"
                            /\ instr_disables_scratch_regs(format, code[i].opcode)}
RegAllocs == {i \in DOMAIN code : code[i].kind = "RegAlloc"}

\* C11 (as stated): a sub with an instruction that disables scratch registers
\* and a RegAlloc, in either order, fails register assignment, and the
\* diagnostic points at a disabling instruction and at an expression that
\* required a scratch register.
ScratchDisabledPointsAtBoth ==
    (lphase = "done" /\ DisablingInstrs # {} /\ RegAllocs # {}) =>
        /\ sw.result # "ok"
        /\ sw.labels \cap DisablingInstrs # {}
        /\ sw.labels \cap RegAllocs # {}

\* the part of C11 about the outcome alone
ScratchDisabledFails ==
    (lphase = "done" /\ DisablingInstrs # {} /\ RegAllocs # {}) => sw.result # "ok"

\* ------------------------------------------------------------------------
\* Properties of the statement loop
\* ------------------------------------------------------------------------

\* the calls of the sub to a terminating opcode of its format
TerminatingCalls ==
    {i \in DOMAIN sl.code : /\ sl.code[i].kind = "Call"
                             /\ is_th06_anm_terminating_instr(sl.fmt, sl.code[i].opcode)}
\* the statements other than NoInstruction that follow such a call
StmtsAfterEnd ==
    {j \in DOMAIN sl.code : /\ sl.code[j].kind # "NoInstruction"
                             /\ \E i \in TerminatingCalls : i < j}

Positions(sig, e) == {i \in DOMAIN sig : sig[i] = e}
JumpIntrinsics == {"Jmp", "CondJmp", "CountJmp", "CondJmp2B"}

\* exactly one `o`, at most one `t`, and the `t` next to the `o`
JumpArgsValid(sig) ==
    /\ Cardinality(Positions(sig, "o")) = 1
    /\ Cardinality(Positions(sig, "t")) <= 1
    /\ \A i \in Positions(sig, "o"), j \in Positions(sig, "t") : i = j + 1 \/ j = i + 1

\* some `o` and some `t` have another argument between them
JumpArgsSeparated(sig) ==
    \E i \in Positions(sig, "o"), j \in Positions(sig, "t") : i > j + 1 \/ j > i + 1

\* C13: for Jmp, CondJmp, CountJmp and CondJmp2B a signature is accepted only
\* if it has exactly one `o` and at most one `t`, the `t` immediately before
\* or after the `o`; a signature with no `o`, with several `o`, or with `o`
\* and `t` apart is rejected with an error.
JumpArgsMustBeAdjacent ==
    (abi.result # "none" /\ abi.intrinsic.kind \in JumpIntrinsics) =>
        /\ abi.result = "ok" => JumpArgsValid(abi.sig)
        /\ (Cardinality(Positions(abi.sig, "o")) # 1 \/ JumpArgsSeparated(abi.sig)) =>
              (abi.result = "err" /\ abi.props.err # "none")

\* `if (a == b) goto l @ t` bound to a signature `S t o S`: the time
\* right before the offset, between the two operands
WitnessTimeBeforeOffset ==
    /\ abi.result = "ok"
    /\ abi.intrinsic.kind = "CondJmp"
    /\ abi.sig = <<"S", "t", "o", "S">>
    /\ abi.props.jump = "TimeLoc"

\* the operands of an intrinsic in the order of its instruction: the output
\* operand, if any, then the inputs
AbiOperands(intrinsic) ==
    LET out(ty) == [role |-> "out", ty |-> ty]
        in(ty) == [role |-> "in", ty |-> ty]
        ty == intrinsic.ty
    IN  CASE intrinsic.kind \in {"AssignOp", "Unop"} -> <<out(ty), in(ty)>>
          [] intrinsic.kind = "Binop" ->
                <<out(IF intrinsic.op = "cmp" THEN "Int" ELSE ty), in(ty), in(ty)>>
          [] intrinsic.kind = "CountJmp" -> <<out("Int")>>
          [] intrinsic.kind \in {"CondJmp", "CondJmp2A"} -> <<in(ty), in(ty)>>

OperandIntrinsics == {"AssignOp", "Binop", "Unop", "CountJmp", "CondJmp", "CondJmp2A"}

\* the signature without the jump arguments of an intrinsic that jumps
WithoutJumpArgs(intrinsic, sig) ==
    IF intrinsic.kind \in JumpIntrinsics
      THEN SelectSeq(sig, LAMBDA e : e \notin {"o", "t"})
      ELSE sig

OperandEncoded(operand, e) ==
    \/ operand.ty = "Int" /\ e = "S"
    \/ operand.ty = "Float" /\ e = "f"
    \/ operand.role = "out" /\ operand.ty = "Float" /\ e = "S"

\* C14: for AssignOp, Binop, Unop, CountJmp, CondJmp and CondJmp2A a signature
\* is accepted exactly when, its (valid) jump arguments removed, the
\* encodings that remain are one per operand, the output first, an int as
\* `S`, a float as `f`, and a float as `S` for an output only.
OperandsMatchSignature ==
    (abi.result # "none" /\ abi.intrinsic.kind \in OperandIntrinsics) =>
        LET rest == WithoutJumpArgs(abi.intrinsic, abi.sig)
            operands == AbiOperands(abi.intrinsic)
        IN  abi.result = "ok" <=>
              /\ abi.intrinsic.kind \in JumpIntrinsics => JumpArgsValid(abi.sig)
              /\ Len(rest) = Len(operands)
              /\ \A i \in DOMAIN rest : OperandEncoded(operands[i], rest[i])

\* a float assignment whose output register is written as `S`
WitnessFloatOutputAsInt ==
    /\ abi.result = "ok"
    /\ abi.intrinsic.kind = "AssignOp"
    /\ abi.intrinsic.ty = "Float"
    /\ abi.sig = <<"S", "f">>
    /\ abi.props.dest = "FloatAsInt"

\* ------------------------------------------------------------------------
\* Properties of label resolution
\* ------------------------------------------------------------------------

\* the positions that define a label, and the labels referred to
DefinitionsOf(l) == {i \in DOMAIN lbl.source : lbl.source[i].kind = "Label"
                                                 /\ lbl.source[i].label = l}
ReferencedLabels == {lbl.source[i].arg.label :
                        i \in {j \in DOMAIN lbl.source : lbl.source[j].arg.k # "none"}}
LabelsUnique == \A l \in LabelNames : Cardinality(DefinitionsOf(l)) <= 1
LabelsDefined == \A l \in ReferencedLabels : DefinitionsOf(l) # {}

\* the sum of the sizes of the instructions before position i
RECURSIVE SizeBefore(_)
SizeBefore(i) ==
    IF i <= 1 THEN 0
    ELSE SizeBefore(i - 1) + (IF lbl.source[i - 1].kind = "Instr"
                                THEN instr_size(lbl.fmt, lbl.source[i - 1]) ELSE 0)

\* C15 (as stated): every label, one after the last instruction included, is
\* entered in the table with its own time and with the sum of the sizes of
\* the instructions before it, and every Label(l) / TimeOf(l) argument is
\* replaced by the encoding of that offset / by that time.
LabelTableHoldsTimeAndOffset ==
    (lbl.phase \in {"gathered", "encoded"} /\ LabelsUnique /\ LabelsDefined) =>
        /\ lbl.result # "panic"
        /\ \A l \in LabelNames : \A i \in DefinitionsOf(l) :
              lbl.table[l] = RawLabelInfo(lbl.source[i].time, SizeBefore(i))
        /\ lbl.phase = "encoded" =>
              \A i \in DOMAIN lbl.code :
                  LET arg == lbl.source[i].arg IN
                  /\ arg.k = "Label" =>
                        lbl.code[i].arg =
                            RawBits(encode_label(lbl.fmt, lbl.table[arg.label].offset).bits)
                  /\ arg.k = "TimeOf" => lbl.code[i].arg = RawBits(lbl.table[arg.label].time)

\* the part of C15 that the label table does satisfy: a label followed by an
\* instruction gets the offset of that instruction and the time of that
\* instruction
LabelTableOfFollowedLabels ==
    (lbl.phase \in {"gathered", "encoded"} /\ lbl.result # "err") =>
        \A l \in LabelNames : \A i \in DefinitionsOf(l) :
            \A j \in DOMAIN lbl.source :
                (j > i /\ lbl.source[j].kind = "Instr"
                       /\ \A h \in (i + 1)..(j - 1) : lbl.source[h].kind = "Label")
                => lbl.table[l] = RawLabelInfo(lbl.source[j].time, SizeBefore(i))

\* C16 (as stated): a sub lowers only if its labels are defined at most once
\* and every label it refers to is defined; a second definition gives a
\* "duplicate label" error, also when no instruction follows the labels, and
\* a reference to an undefined label gives an "undefined label" error.
LabelErrorsReported ==
    (lbl.result # "none") =>
        /\ lbl.result = "ok" => (LabelsUnique /\ LabelsDefined)
        /\ ~LabelsUnique =>
              (lbl.result = "err" /\ \E k \in DOMAIN lbl.errors : lbl.errors[k] = "duplicate label")
        /\ (LabelsUnique /\ ~LabelsDefined) =>
              (lbl.result = "err" /\ \E k \in DOMAIN lbl.errors : lbl.errors[k] = "undefined label")

\* the part of C16 about success alone
LabelsCheckedBeforeSuccess ==
    lbl.result = "ok" => (LabelsUnique /\ LabelsDefined)

\* ------------------------------------------------------------------------
\* Properties of the early STD label encoding
\* ------------------------------------------------------------------------

\* C17: in early STD the byte offset of an instruction is encoded as the
\* zero-based index of the instruction (offset / 20), not as the offset, and
\* decoding the encoded value gives the offset back.
EarlyStdLabelIsIndex ==
    (enc.phase \in {"encoded", "decoded"} /\ enc.offset % 20 = 0) =>
        /\ enc.result = "ok"
        /\ enc.bits * 20 = enc.offset
        /\ enc.offset > 0 => enc.bits # enc.offset
        /\ enc.phase = "decoded" => enc.decoded = enc.offset

\* the third instruction, at byte 40, is encoded as 2 and decoded as 40
WitnessThirdInstruction ==
    /\ enc.phase = "decoded"
    /\ enc.offset = 40
    /\ enc.bits = 2
    /\ enc.decoded = 40

\* C18: an early STD jump target that is not a multiple of 20 bytes is
\* rejected: the encoding fails and no encoded value is produced.
UnalignedTargetRejected ==
    (enc.phase # "offset" /\ enc.offset % 20 # 0) =>
        /\ enc.result = "panic"
        /\ enc.bits = -1
        /\ enc.phase # "decoded"

\* a target in the middle of the second instruction
WitnessUnalignedTarget ==
    /\ enc.phase = "encoded"
    /\ enc.offset = 30
    /\ enc.result = "panic"

\* ------------------------------------------------------------------------
\* Properties of reading and writing a script
\* ------------------------------------------------------------------------

\* the first k items of the stream are instructions
InstrsUpTo(k) == k <= Len(io.stream) /\ \A i \in 1..k : io.stream[i].kind = "Instr"
RECURSIVE StreamSize(_)
StreamSize(k) == IF k = 0 THEN 0 ELSE StreamSize(k - 1) + io.stream[k].size

\* the stream reaches the end offset after its k-th instruction, k >= 1
ReachesEnd(k) ==
    /\ k >= 1
    /\ InstrsUpTo(k)
    /\ StreamSize(k) = io.end_offset
\* the k-th instruction runs past the end offset, which was not reached
\* after an instruction before it
RunsPastEnd(k) ==
    /\ k >= 1
    /\ InstrsUpTo(k)
    /\ StreamSize(k) > io.end_offset
    /\ \A j \in 1..(k - 1) : StreamSize(j) # io.end_offset

\* C19: with an end offset, a stream that reaches exactly that offset without
\* an end-of-script marker is read up to there, with a warning, and every
\* instruction read is returned; a stream that runs past the offset fails;
\* writing the script read puts the end-of-script marker after the last
\* instruction.
MissingEndMarkerRestored ==
    /\ (io.phase \in {"read", "written"} /\ io.end_offset # -1) =>
          \A k \in 1..MaxStream + 1 :
              /\ ReachesEnd(k) =>
                    /\ io.result = "ok"
                    /\ io.warned
                    /\ io.script = SubSeq(io.stream, 1, k)
              /\ RunsPastEnd(k) => io.result = "err"
    /\ io.phase = "written" =>
          /\ Len(io.out) = Len(io.script) + 1
          /\ SubSeq(io.out, 1, Len(io.script)) = io.script
          /\ io.out[Len(io.out)] = Terminal

\* two instructions fill the script up to its end offset; they are written
\* back followed by the marker
WitnessMarkerAdded ==
    /\ io.phase = "written"
    /\ io.end_offset = 20
    /\ Len(io.stream) = 2
    /\ io.warned
    /\ Len(io.script) = 2
    /\ io.out[3] = Terminal

\* ------------------------------------------------------------------------
\* Properties of the STD compile driver
\* ------------------------------------------------------------------------

\* C20: once a pass or the lowering has reported an error, compile_std does
\* not return success.
ReportedErrorFailsCompile ==
    cs.reported # <<>> => (cs.result # "ok" /\ (cs.stage = "returned" => cs.result = "err"))

\* the lowering failed, lowerer.finish succeeded after it, and the result is
\* a failure
WitnessLoweringErrorKept ==
    /\ cs.stage = "returned"
    /\ cs.reported = <<"lower_sub">>
    /\ cs.result = "err"

\* ------------------------------------------------------------------------
\* Properties of constant simplification
\* ------------------------------------------------------------------------

\* C21: const_simplify applied to an expression that const_simplify has
\* already processed without error succeeds and leaves it unchanged.
ConstSimplifyIdempotent ==
    (Len(cst.passes) = 2 /\ cst.passes[1].result = "ok")
        => (cst.passes[2].result = "ok" /\ cst.passes[2].output = cst.passes[1].output)

\* a ternary with a constant condition was replaced by its folded branch in
\* the first pass, and the second pass has run on the result
WitnessFoldedTwice ==
    /\ Len(cst.passes) = 2
    /\ cst.passes[1].result = "ok"
    /\ cst.passes[1].input.kind = "Ternary"
    /\ cst.passes[1].input.args[2].kind = "Binop"
    /\ cst.passes[1].output.kind = "LitInt"
    /\ cst.passes[2].input = cst.passes[1].output

\* ------------------------------------------------------------------------
\* Properties of conditional jumps
\* ------------------------------------------------------------------------
\* whether a condition is true under the values of the variables
RECURSIVE CondTrue(_, _)
CondTrue(env, e) ==
    CASE e.kind = "Binop" /\ e.op \in Comparisons ->
            Compare(e.op, OperandValue(env, e.args[1]), OperandValue(env, e.args[2]))
      [] e.kind = "Binop" /\ e.op = "LogicAnd" -> CondTrue(env, e.args[1]) /\ CondTrue(env, e.args[2])
      [] e.kind = "Binop" /\ e.op = "LogicOr" -> CondTrue(env, e.args[1]) \/ CondTrue(env, e.args[2])
      [] e.kind = "Unop" -> ~CondTrue(env, e.args[1])
      [] OTHER -> OperandValue(env, e) # 0
KeywordHolds == IF cj.keyword = "if" THEN CondTrue(cj.env, cj.cond) ELSE ~CondTrue(cj.env, cj.cond)

\* C24: the code emitted for `<keyword> (cond) goto L` jumps to L exactly
\* when the keyword's condition holds, and otherwise falls through to the
\* next statement.
CondJumpFollowsCondition ==
    cj.phase = "done" =>
        /\ cj.result = "jumped" <=> KeywordHolds
        /\ cj.result = "fell through" <=> ~KeywordHolds

\* `if (a && b) goto L` with a false: the first jump went to the skip label,
\* and the machine fell through
WitnessSkipLabelTaken ==
    /\ cj.phase = "done"
    /\ cj.keyword = "if"
    /\ cj.cond.kind = "Binop"
    /\ cj.cond.op = "LogicAnd"
    /\ cj.out[Len(cj.out)].kind = "Label"
    /\ cj.steps = 2
    /\ cj.result = "fell through"

\* C25: const-folding `!x` of an integer literal x gives a non-zero value
\* exactly when x is 0, which is when the code lowered from `if (!x) goto L`
\* jumps.
NotFoldsAsLowered ==
    (/\ cj.phase = "done"
     /\ cj.keyword = "if"
     /\ cj.cond.kind = "Unop"
     /\ cj.cond.args[1].kind = "LitInt")
        => LET x == cj.cond.args[1].value
               folded == unop_const_eval_int("Not", x)
           IN  /\ folded # 0 <=> x = 0
               /\ folded # 0 <=> cj.result = "jumped"

\* ------------------------------------------------------------------------
\* Properties of the allocation marks
\* ------------------------------------------------------------------------
\* every statement of the sub has been lowered, the ScopeEnd of a declared
\* local included
SubLowered == lphase = "closed" \/ (lphase = "lowered" /\ ~stmt.decl)

\* from statement i on, with the locals in `live` allocated and not yet freed
\* (innermost last) and the locals in `freed` freed: every RegAlloc names a
\* new local, every RegFree the innermost live one, and none stays live
RECURSIVE NestedFrom(_, _, _)
NestedFrom(i, live, freed) ==
    IF i > Len(code) THEN live = <<>>
    ELSE IF code[i].kind = "RegAlloc"
      THEN /\ code[i].local \notin Range(live) \cup freed
           /\ NestedFrom(i + 1, Append(live, code[i].local), freed)
    ELSE IF code[i].kind = "RegFree"
      THEN /\ live # <<>>
           /\ live[Len(live)] = code[i].local
           /\ NestedFrom(i + 1, SubSeq(live, 1, Len(live) - 1), freed \cup {code[i].local})
    ELSE NestedFrom(i + 1, live, freed)

LiveLocals == {l \in DOMAIN sw.local_regs : sw.local_regs[l] # None}

\* C23: at every point of the register-assignment sweep no register is held
\* by two live locals, and no register held by a live local is in a free
\* pool.
NoRegisterHeldTwice ==
    lphase \in {"sweep", "done"} =>
        /\ \A l \in LiveLocals, m \in LiveLocals :
              l # m => sw.local_regs[l] # sw.local_regs[m]
        /\ \A l \in LiveLocals, ty \in ScalarTypes :
              sw.local_regs[l] \notin Range(sw.unused_regs[ty])

\* two locals of one type hold registers at once, after a third statement
\* has been swept
WitnessTwoLocalsHoldRegisters ==
    /\ lphase = "sweep"
    /\ \E l \in LiveLocals, m \in LiveLocals : l # m /\ variables[l] = variables[m]
    /\ sw.last = "Instr"

\* ------------------------------------------------------------------------
\* Unused labels
\* ------------------------------------------------------------------------
\* the destinations of the jumps of a block, at every nesting depth
RECURSIVE JumpTargets(_)
JumpTargets(block) ==
    UNION {(IF block[i].kind \in JumpKinds THEN {block[i].destination} ELSE {})
              \cup JumpTargets(block[i].block) : i \in DOMAIN block}

\* every label of `before` that is one of `targets` is still on its
\* statement in `after`, at every nesting depth
RECURSIVE TargetedLabelsKept(_, _, _)
TargetedLabelsKept(before, after, targets) ==
    \A i \in DOMAIN before :
        /\ \A j \in DOMAIN before[i].labels :
              LET label == before[i].labels[j]
              IN  (label.kind = "Label" /\ label.ident \in targets)
                      => \E k \in DOMAIN after[i].labels : after[i].labels[k] = label
        /\ TargetedLabelsKept(before[i].block, after[i].block, targets)

\* C26: after the pass no label that a jump or conditional jump anywhere in
\* the function body, at any nesting depth, targets has been removed from
\* its statement.
ReferencedLabelNeverRemoved ==
    ul.phase = "done" => TargetedLabelsKept(ul.input, ul.body, JumpTargets(ul.input))

\* ------------------------------------------------------------------------
\* Trailing padding of an intrinsic's signature
\* ------------------------------------------------------------------------
\* the number of `_` encodings at the end of a signature
RECURSIVE TrailingPadding(_)
TrailingPadding(sig) ==
    IF sig # <<>> /\ sig[Len(sig)] = "_" THEN 1 + TrailingPadding(SubSeq(sig, 1, Len(sig) - 1))
    ELSE 0
PaddedIntrinsics == {"Jmp", "InterruptLabel"}

\* C27 as stated: a signature accepted for an intrinsic of any kind is still
\* accepted with one more `_` at its end.
TrailingPaddingAcceptedForEveryKind ==
    abi.result = "ok" => from_abi(abi.intrinsic, Append(abi.sig, "_")).err = "none"

\* C27: for Jmp and InterruptLabel the `_` encodings at the end are taken as
\* padding, their count and the index of the first are recorded, and an
\* accepted signature stays accepted with one more `_`, which only adds one
\* to the count; for every other kind a signature that ends in `_` is
\* rejected.
TrailingPaddingOfJumpAndInterrupt ==
    /\ (abi.result = "ok" /\ abi.intrinsic.kind \in PaddedIntrinsics) =>
          /\ abi.props.padding = TrailingPadding(abi.sig)
          /\ abi.props.padding_index = Len(abi.sig) - TrailingPadding(abi.sig)
          /\ LET more == from_abi(abi.intrinsic, Append(abi.sig, "_"))
             IN  /\ more.err = "none"
                 /\ more.padding = abi.props.padding + 1
                 /\ more.padding_index = abi.props.padding_index
                 /\ more.jump = abi.props.jump
                 /\ more.inputs = abi.props.inputs
    /\ (abi.result = "ok" /\ abi.intrinsic.kind \notin PaddedIntrinsics) =>
          /\ TrailingPadding(abi.sig) = 0
          /\ from_abi(abi.intrinsic, Append(abi.sig, "_")).err # "none"
WitnessJumpWithTwoPaddings ==
    /\ abi.result = "ok"
    /\ abi.intrinsic.kind = "Jmp"
    /\ abi.sig = <<"o", "t", "_", "_">>
    /\ abi.props.padding = 2
    /\ abi.props.padding_index = 2

\* ------------------------------------------------------------------------
\* Pass order
\* ------------------------------------------------------------------------
\* the passes and the lowering of a driver, in the order of its code
RunOrder(driver) == Append(PassesOf(driver), "lower")
ClaimedOrder == <<"assign_languages", "resolve_names", "type_check", "evaluate_const_vars",
                  "const_simplify", "desugar_blocks", "lower">>
PositionIn(order, name) == CHOOSE i \in DOMAIN order : order[i] = name
Names(order) == {order[i] : i \in DOMAIN order}

\* C28 as stated: in every compilation the passes that have started are in
\* the order assign_languages, resolve_names, type_check,
\* evaluate_const_vars, const_simplify, desugar_blocks, lower.
PassesInClaimedOrder ==
    \A i, j \in DOMAIN cs.started :
        (i < j /\ cs.started[i] \in Names(ClaimedOrder) /\ cs.started[j] \in Names(ClaimedOrder))
            => PositionIn(ClaimedOrder, cs.started[i]) < PositionIn(ClaimedOrder, cs.started[j])

\* C28: the steps started so far are the first steps of the driver's own
\* order (assign_languages, resolve_names, type_check, forbid_difficulty,
\* evaluate_const_vars, const_simplify, desugar_blocks, lower in
\* formats/std.rs; const_simplify, resolve_names, compile_loop, lower in
\* std.rs), so each has run at most once, and none of the steps before the
\* last one started has reported an error.
PassesInDriverOrder ==
    cs.result # "idle" =>
        /\ Len(cs.started) <= Len(RunOrder(cs.driver))
        /\ cs.started = SubSeq(RunOrder(cs.driver), 1, Len(cs.started))
        /\ \A i \in DOMAIN cs.started :
              i < Len(cs.started) => \A k \in DOMAIN cs.reported : cs.reported[k] # cs.started[i]
        /\ (cs.started # <<>> /\ cs.started[Len(cs.started)] = "lower")
              => \A k \in DOMAIN cs.reported : cs.reported[k] \in {"lower_sub", "finish"}
WitnessAllPassesThenLower ==
    /\ cs.driver = "formats/std.rs"
    /\ cs.started = RunOrder("formats/std.rs")
    /\ cs.stage = "returned"
    /\ cs.result = "ok"
\* ------------------------------------------------------------------------
\* The terminating instruction of an EoSD ANM script
\* ------------------------------------------------------------------------
\* the positions in the lowered sub of the instructions, and of those with a
\* terminating opcode
InstrPositions == {k \in DOMAIN sl.out : sl.out[k].kind = "Instr"}
TerminatingPositions ==
    {k \in InstrPositions : is_th06_anm_terminating_instr(sl.fmt, sl.out[k].opcode)}

\* C29: an EoSD ANM sub that is lowered without error to at least one
\* instruction holds exactly one instruction with a terminating opcode, and
\* no instruction comes after it.
ExactlyOneTerminatingInstrLast ==
    (sl.result = "ok" /\ sl.fmt.th06_anm /\ InstrPositions # {}) =>
        /\ Cardinality(TerminatingPositions) = 1
        /\ \A k \in TerminatingPositions : \A j \in InstrPositions : j <= k


\* ------------------------------------------------------------------------
\* The STD file round trip
\* ------------------------------------------------------------------------
InstancesReferToObjects(std) ==
    \A i \in DOMAIN std.instances : get_index_of(std.objects, std.instances[i].object) # -1
\* the opcode that the reader takes for the end-of-script marker
NoTerminalOpcode(script) == \A i \in DOMAIN script : script[i].opcode # 65535

\* the objects with their quads in the same order, the instances on the
\* objects of the same index, the same script
SameObjects(std, read) ==
    /\ Len(read.objects) = Len(std.objects)
    /\ \A i \in DOMAIN std.objects : read.objects[i].object = std.objects[i].object
SameInstances(std, read) ==
    /\ Len(read.instances) = Len(std.instances)
    /\ \A i \in DOMAIN std.instances :
          /\ get_index_of(read.objects, read.instances[i].object)
                = get_index_of(std.objects, std.instances[i].object)
          /\ read.instances[i].unknown = std.instances[i].unknown
          /\ read.instances[i].pos = std.instances[i].pos
SameStdFile(std, read) ==
    /\ read.unknown = std.unknown
    /\ read.extra = std.extra
    /\ SameObjects(std, read)
    /\ SameInstances(std, read)
    /\ read.script = std.script

\* C30 as stated: every StdFile whose instances refer to existing objects is
\* written, and read_std returns from the bytes the same objects, quads,
\* instances and script instructions.
StdRoundTripOfAnyScript ==
    (sf.phase = "done" /\ InstancesReferToObjects(sf.std)) =>
        /\ sf.result = "read"
        /\ SameStdFile(sf.std, sf.read)

\* C30: a StdFile whose instances refer to existing objects and whose script
\* has no instruction of opcode 0xffff is written, and read_std returns from
\* the bytes the same objects, quads, instances (on the objects of the same
\* index, which are named object0, object1, ...) and script instructions;
\* the offsets in the header are those of the first instance and of the
\* first instruction.  A script is read up to its first instruction of
\* opcode 0xffff.
StdRoundTrip ==
    sf.phase = "done" =>
        /\ sf.result = "write error" <=> ~InstancesReferToObjects(sf.std)
        /\ (InstancesReferToObjects(sf.std) /\ NoTerminalOpcode(sf.std.script)) =>
              /\ sf.result = "read"
              /\ SameStdFile(sf.std, sf.read)
              /\ (\A i \in DOMAIN sf.std.objects : sf.std.objects[i].name = ObjectIdent(i - 1))
                    => sf.read = sf.std
              /\ read_u32(sf.bytes, 8) - read_u32(sf.bytes, 4) = 16 * (Len(sf.std.instances) + 1)
              /\ Len(sf.bytes) - read_u32(sf.bytes, 8) = 12 * Len(sf.std.script) + 20
        /\ (InstancesReferToObjects(sf.std) /\ ~NoTerminalOpcode(sf.std.script)) =>
              /\ sf.result = "read"
              /\ Len(sf.read.script) < Len(sf.std.script)
              /\ sf.read.script = SubSeq(sf.std.script, 1, Len(sf.read.script))
              /\ sf.std.script[Len(sf.read.script) + 1].opcode = 65535
WitnessStdFileReadBack ==
    /\ sf.phase = "done"
    /\ sf.result = "read"
    /\ Len(sf.std.objects) = 2
    /\ sf.std.objects[1].name # ObjectIdent(0)
    /\ Len(sf.std.objects[2].object.quads) = 2
    /\ Len(sf.std.instances) = 2
    /\ sf.std.instances[1].object # sf.std.instances[2].object
    /\ Len(sf.std.script) = 2
    /\ sf.read.script = sf.std.script
    /\ sf.read.instances[2].object = ObjectIdent(get_index_of(sf.std.objects, sf.std.instances[2].object))
====
